---- MODULE Spec2Model ----
(***************************************************************************)
(* NanoEdit: the edit-history hook (src/hooks/useImageHistory.ts) and the  *)
(* canonical Editor component (src/components/Editor.tsx, lines 638-1485)  *)
(* that drives it.                                                         *)
(*                                                                         *)
(* Eight specifications are given.                                         *)
(*   Spec       the Editor: user events, asynchronous completions, and the *)
(*              re-render React commits after each of them.                *)
(*   HookSpec   the hook alone under an arbitrary client, which may issue  *)
(*              several calls from the closures of one render before React *)
(*              re-renders.                                                *)
(*   StoreSpec  the Editor across page reloads, over every kind of stored  *)
(*              session and a localStorage that may refuse writes.         *)
(*   AssistSpec the Editor with its suggestion panel.                      *)
(*   PanelSpec  the same with the "Clear Session" button.                  *)
(*   StudioSpec the Editor with everything that can fail: upload, AI edit, *)
(*              suggestions, download, share and voice capture, one        *)
(*              operation at a time.                                       *)
(*   ViewSpec   the Editor with its zoom buttons and comparison slider.    *)
(*   LibrarySpec the functions of utils/imageOptimizer                     *)
(*              (src/unnamed/part_001) called on their own.                *)
(* Indices are the code's: 0-based, -1 for "no current version".           *)
(***************************************************************************)
EXTENDS Integers, Sequences, FiniteSets, Bags, TLC

\* ------------------------------------------------------------------ bounds
MaxLen == 2          \* longest version list the Editor builds
MaxHookLen == 3      \* longest version list a client of the hook builds
MaxInFlight == 2     \* AI edit requests and upload optimizations in flight at once
MaxCalls == 2        \* hook calls a client issues between two renders
MaxOffset == 200     \* how far, in pixels, a pan drags the image
MaxZoomSteps == 7    \* zoom gestures between two neutral transforms
MaxParts == 2        \* parts in a response of the AI edit collaborator

\* ------------------------------------------------------------------ values
Null == "null"                 \* JavaScript null
Undefined == "undefined"       \* JavaScript undefined

PNG == "image/png"
JPEG == "image/jpeg"

\* `data:${mime};base64,${data}`
DataUrl(mime, data) == <<"data:", mime, ";base64,", data>>
NullUrl == <<Null>>

ImageState(url, mime) == [dataUrl |-> url, mimeType |-> mime]

\* history[i] for an index outside the array
NoImage == ImageState(<<Undefined>>, Undefined)

\* Files the user can drop: two images and one that is not an image.
File1 == [type |-> PNG, data |-> "u1"]
File2 == [type |-> JPEG, data |-> "u2"]
TextFile == [type |-> "text/plain", data |-> "t"]
Files == {File1, File2, TextFile}

IsImageFile(file) == file.type \in {PNG, JPEG}

\* What the AI collaborator resolves with: a data URL.
AIResults == {DataUrl(JPEG, "y1")}

\* What the AI collaborator rejects with: Error(userFriendlyError).
AIErrors == {"A network error occurred. Please check your internet connection and try again."}

PromptTexts == {"", "add hat"}

ApplyingEdit == "Applying AI edit..."
OptimizingImage == "Optimizing image..."
NotAnImage == "Please upload a valid image file (PNG, JPG, etc.)."
NullSplit == "Cannot read properties of null (reading 'split')"

\* ------------------------------------------------------------------ state
VARIABLES
    history,            \* useState<ImageState[]>
    currentIndex,       \* useState<number>
    rHistory,           \* history as captured by the closures of the last render
    rIndex,             \* currentIndex as captured by the closures of the last render
    calls,              \* hook calls made since the last render
    prompt,
    isLoading,
    loadingMessage,
    error,
    suggestions,
    isGeneratingSuggestions,
    suggestionError,
    speechRecognitionError,
    transform,
    adjustments,        \* <<brightness, contrast>>
    sliderPosition,
    isPanning,          \* a pan gesture is under way
    zoomSteps,          \* zoom gestures made since the transform was last neutral
    savedImage,         \* localStorage['nanoedit-saved-image']
    savedPrompt,        \* localStorage['nanoedit-saved-prompt']
    edits,              \* handleSubmit calls suspended at their await (a bag)
    uploads,            \* handleFileChange calls suspended before reader.onloadend (a bag)
    fetches,            \* handleGetSuggestions calls suspended at their await (a bag)
    quota,              \* localStorage.setItem throws QuotaExceededError
    crashed,            \* an effect threw: React has unmounted the component tree
    mounted,            \* the mount effects have run
    isRecording,
    recognition,        \* recognitionRef.current, with the SpeechRecognition's progress
    downloads,          \* handleDownload calls suspended at one of their awaits (a bag)
    shares,             \* handleShare calls suspended at one of their awaits (a bag)
    shareStatus,
    applied,            \* the last call of an image function: its arguments and result
    last                \* the operation that produced this state, and what it saw

hookVars == <<history, currentIndex, rHistory, rIndex, calls>>
uiVars == <<prompt, isLoading, loadingMessage, error>>
sideVars == <<suggestions, isGeneratingSuggestions, suggestionError, speechRecognitionError>>
viewVars == <<transform, adjustments, sliderPosition, isPanning, zoomSteps>>
storeVars == <<savedImage, savedPrompt>>
asyncVars == <<edits, uploads, fetches>>
voiceVars == <<isRecording, recognition>>
exportVars == <<downloads, shares, shareStatus>>
studioVars == <<voiceVars, exportVars, applied>>
vars == <<hookVars, uiVars, sideVars, viewVars, storeVars, asyncVars, mounted, quota,
          studioVars, crashed, last>>

\* ------------------------------------------------------------ localStorage
NoItem == [kind |-> "null", body |-> <<>>]           \* getItem(...) === null
Text(s) == [kind |-> "text", body |-> <<s>>]          \* a plain string
Json(pairs) == [kind |-> "json", body |-> pairs]      \* the text of a JSON object

\* JSON.stringify of an ImageState: undefined members are left out.
Stringify(img) ==
    Json((IF img.dataUrl = <<Undefined>> THEN <<>> ELSE << <<"dataUrl", img.dataUrl>> >>)
         \o (IF img.mimeType = Undefined THEN <<>> ELSE << <<"mimeType", <<img.mimeType>> >> >>))

Member(pairs, key) ==
    LET hits == {i \in 1..Len(pairs) : pairs[i][1] = key}
    IN IF hits = {} THEN <<Undefined>> ELSE pairs[CHOOSE i \in hits : TRUE][2]

\* JSON.parse(text) read as an ImageState; the text must be a JSON object.
Parses(item) == item.kind = "json"

\* A parse that loses the media type.
ParseWithoutMimeType(item) == ImageState(Member(item.body, "dataUrl"), Undefined)

Parse(item) ==
    ImageState(Member(item.body, "dataUrl"), Member(item.body, "mimeType")[1])

\* `if (savedImageJSON)`, `if (savedPrompt)`: a non-empty string
Truthy(item) == item.kind = "json" \/ (item.kind = "text" /\ item.body # <<"">>)

\* ------------------------------------------------------------ the hook
\* history[i]
At(h, i) == IF i >= 0 /\ i < Len(h) THEN h[i + 1] ELSE NoImage

current == At(rHistory, rIndex)

\* An `original` that is the version under the cursor.
originalIsCurrent == At(rHistory, rIndex)

original == At(rHistory, 0)

\* A canUndo that is already true on the first version.
canUndoFromFirst == rIndex >= 0

canUndo == rIndex > 0
canRedo == rIndex < Len(rHistory) - 1

\* history.slice(0, currentIndex + 1)
Slice(h, n) ==
    LET m == IF n < 0 THEN (IF Len(h) + n < 0 THEN 0 ELSE Len(h) + n)
             ELSE (IF n > Len(h) THEN Len(h) ELSE n)
    IN SubSeq(h, 1, m)

\* A push that appends without cutting the redo tail.
PushHistoryKeepTail(h, i, state) == Append(h, state)

\* A push that leaves the cursor on the last index of the old list.
PushIndexOldLength(h, i, state) == Len(h) - 1

\* A reset that appends to the list the render holds instead of replacing it.
ResetHistoryAppend(state) == Append(rHistory, state)

\* push: the history and index it computes from the values its closure holds
PushHistory(h, i, state) == Append(Slice(h, i + 1), state)
PushIndex(h, i, state) == Len(PushHistory(h, i, state)) - 1

\* undo, redo: the functional updates, guarded by the render's flags
UndoIndex(can, prev) == IF can THEN prev - 1 ELSE prev
RedoIndex(can, prev) == IF can THEN prev + 1 ELSE prev

ResetHistory(state) == <<state>>

\* A reset that leaves the cursor where it is.
ResetIndexKept == currentIndex

ResetIndex == 0

\* ------------------------------------------------------------ rendering
\* What `last` records: the operation, the image it carried, what the user did
\* while it was in flight, the message it failed with, and the exception that
\* escaped it.
Did(op, arg, seen) ==
    [op |-> op, arg |-> arg, seen |-> seen, message |-> Null, thrown |-> Null]

QuotaExceededError == "QuotaExceededError"
TypeError == "TypeError"

\* What an item takes of the storage: nothing, a text, an image.
Size(item) ==
    IF item.kind = "json" THEN 2
    ELSE IF item.kind = "text" /\ item.body # <<"">> THEN 1
    ELSE 0

\* localStorage.setItem(key, value): what it throws (a full storage takes the
\* value it holds and smaller ones), and the item afterwards.
SetItemThrows(value, stored) ==
    IF quota /\ value # stored /\ Size(value) >= Size(stored)
    THEN QuotaExceededError ELSE Null
SetItem(value, stored) ==
    IF SetItemThrows(value, stored) # Null THEN stored ELSE value

\* The auto-save effect, run by the render that follows a change of `current`:
\* it calls setItem, with no try around it.
Saves(changed, cur) == changed /\ cur # NoImage
AutoSave(changed, cur, stored) ==
    IF Saves(changed, cur) THEN SetItem(Stringify(cur), stored) ELSE stored

\* React re-renders after the handler: the closures now hold the new state,
\* and the effect on [current] runs if the current image is another object.
Render(changed) ==
    /\ rHistory' = history'
    /\ rIndex' = currentIndex'
    /\ calls' = 0
    /\ savedImage' = AutoSave(changed, At(history', currentIndex'), savedImage)
    /\ crashed' = (\/ crashed
                   \/ /\ Saves(changed, At(history', currentIndex'))
                      /\ SetItemThrows(Stringify(At(history', currentIndex')),
                                       savedImage) # Null)

\* resetView, resetAdjustments
\* { scale: 1, x: 0, y: 0 }; the scale is kept in thousandths.
NeutralTransform == [scale |-> 1000, x |-> 0, y |-> 0]
NeutralAdjustments == <<100, 100>>
NeutralSlider == 50

\* recognitionRef.current: null, or the SpeechRecognition made by
\* handleToggleRecording with the prompt its handlers closed over and how far
\* it has got ("starting", "listening", "stopping", "ending").
Recognition(stage, closed) == [stage |-> stage, prompt |-> closed]
NoRecognition == Recognition(Null, "")

\* No image function has been called.
NotApplied == [fn |-> Null]

\* useState(false), useRef(null), useState('idle'); nothing in flight.
StudioInit ==
    /\ isRecording = FALSE
    /\ recognition = NoRecognition
    /\ downloads = EmptyBag
    /\ shares = EmptyBag
    /\ shareStatus = "idle"
    /\ applied = NotApplied

\* ------------------------------------------------------------ startup
\* What an earlier session may have left in localStorage: nothing, a saved
\* image, or text that is not JSON.
InitialImages == {NoItem,
                  Stringify(ImageState(DataUrl(PNG, "u1"), PNG)),
                  Text("{not json")}
InitialPrompts == {NoItem, Text("add hat")}

Init ==
    /\ history = <<>>
    /\ currentIndex = -1
    /\ rHistory = <<>>
    /\ rIndex = -1
    /\ calls = 0
    /\ prompt = ""
    /\ isLoading = FALSE
    /\ loadingMessage = ""
    /\ error = Null
    /\ suggestions = <<>>
    /\ isGeneratingSuggestions = FALSE
    /\ suggestionError = Null
    /\ speechRecognitionError = Null
    /\ transform = NeutralTransform
    /\ adjustments = NeutralAdjustments
    /\ sliderPosition = NeutralSlider
    /\ isPanning = FALSE
    /\ zoomSteps = 0
    /\ savedImage \in InitialImages
    /\ savedPrompt \in InitialPrompts
    /\ edits = EmptyBag
    /\ uploads = EmptyBag
    /\ fetches = EmptyBag
    /\ mounted = FALSE
    /\ quota = FALSE
    /\ crashed = FALSE
    /\ StudioInit
    /\ last = Did("init", NoImage, {})

\* The load effect (and the first run of the auto-save effect after it).
Mount ==
    /\ ~mounted /\ ~crashed
    /\ mounted' = TRUE
    /\ IF Truthy(savedImage) /\ ~Parses(savedImage)
       THEN \* JSON.parse throws: both keys are removed
            /\ savedImage' = NoItem
            /\ savedPrompt' = NoItem
            /\ UNCHANGED <<hookVars, prompt, crashed>>
       ELSE /\ IF Truthy(savedImage)
               THEN /\ history' = ResetHistory(Parse(savedImage))
                    /\ currentIndex' = ResetIndex
                    /\ Render(TRUE)
               ELSE UNCHANGED <<hookVars, savedImage, crashed>>
            /\ prompt' = IF Truthy(savedPrompt) THEN savedPrompt.body[1] ELSE prompt
            /\ UNCHANGED savedPrompt
    /\ last' = Did("mount", NoImage, IF last.op = "reload" THEN {"reloaded"} ELSE {})
    /\ UNCHANGED <<isLoading, loadingMessage, error, sideVars, viewVars, asyncVars, quota,
                   studioVars>>

\* ------------------------------------------------------------ in-flight marks
\* Every suspended handleSubmit call notes what the user did meanwhile: moved
\* the cursor (undo, redo) or cleared the session.
Note(what) ==
    LET marked == {[call EXCEPT !.seen = @ \cup {what}] : call \in BagToSet(edits)}
    IN [call \in marked |->
           CopiesIn(call, edits) + CopiesIn([call EXCEPT !.seen = @ \ {what}], edits)]

\* One more, one fewer suspended call.
Add(bag, call) == bag (+) SetToBag({call})
Remove(bag, call) == bag (-) SetToBag({call})

Pending == BagCardinality(edits) + BagCardinality(uploads)

\* An attempt that leaves the message of the attempt before it in its slot.
KeepSlot(previous) == previous

\* setError(null), setSuggestionError(null), setSpeechRecognitionError(null)
ClearSlot(previous) == Null

\* ------------------------------------------------------------ upload
\* handleDrop -> handleFileChange(file), up to the await.
HandleDrop(file) ==
    /\ mounted /\ ~crashed
    /\ IF IsImageFile(file)
       THEN /\ Pending < MaxInFlight
            /\ isLoading' = TRUE
            /\ loadingMessage' = OptimizingImage
            /\ error' = ClearSlot(error)
            /\ suggestions' = <<>>
            /\ transform' = NeutralTransform
            /\ zoomSteps' = 0
            /\ adjustments' = NeutralAdjustments
            /\ uploads' = Add(uploads, file)
            /\ UNCHANGED <<edits, fetches>>
       ELSE /\ error' = NotAnImage
            /\ UNCHANGED <<isLoading, loadingMessage, suggestions, transform, zoomSteps,
                           adjustments, asyncVars>>
    /\ last' = Did("drop", NoImage, {})
    /\ UNCHANGED <<hookVars, prompt, isGeneratingSuggestions, suggestionError,
                   speechRecognitionError, sliderPosition, isPanning, storeVars, mounted, quota,
                   studioVars, crashed>>

\* reader.onloadend: the file was read (result is its data URL) or was not
\* (result is null).
UploadLoaded(file, read) ==
    /\ BagIn(file, uploads)
    /\ uploads' = Remove(uploads, file)
    /\ savedPrompt' = NoItem
    /\ LET state == ImageState(IF read THEN DataUrl(file.type, file.data) ELSE NullUrl,
                               file.type)
       IN /\ last' = Did(IF read THEN "upload" ELSE "uploadUnread", state, {})
          /\ IF crashed
             THEN \* the component is gone: its state setters do nothing
                  UNCHANGED <<hookVars, prompt, isLoading, loadingMessage, savedImage,
                              crashed>>
             ELSE /\ history' = ResetHistory(state)
                  /\ currentIndex' = ResetIndex
                  /\ prompt' = ""
                  /\ isLoading' = FALSE
                  /\ loadingMessage' = ""
                  /\ Render(TRUE)
    /\ UNCHANGED <<error, sideVars, viewVars, edits, fetches, mounted, quota, studioVars>>

\* ------------------------------------------------------------ AI edit
\* handleSubmit, up to the await.  The call keeps the `push` of the render it
\* was made in, and with it that render's history and currentIndex.
\* A guard that lets a submit through while an operation is in flight.
AcceptedWhileLoading == ~(current = NoImage \/ prompt = "")

\* if (!current || !prompt || isLoading) return;
Accepted == ~(current = NoImage \/ prompt = "" \/ isLoading)

HandleSubmit ==
    /\ mounted /\ ~crashed
    /\ Accepted
    /\ error' = IF current.dataUrl = NullUrl THEN NullSplit ELSE ClearSlot(error)
    /\ IF current.dataUrl = NullUrl
       THEN \* current.dataUrl.split throws inside the try: catch, then finally
            /\ isLoading' = FALSE
            /\ loadingMessage' = ""
            /\ UNCHANGED edits
       ELSE /\ Pending < MaxInFlight
            /\ rIndex + 2 <= MaxLen
            /\ isLoading' = TRUE
            /\ loadingMessage' = ApplyingEdit
            /\ edits' = Add(edits, [history |-> rHistory, currentIndex |-> rIndex,
                                    seen |-> {}])
    /\ last' = Did("submit", NoImage, {})
    /\ UNCHANGED <<hookVars, prompt, sideVars, viewVars, storeVars, uploads, fetches,
                   mounted, quota, studioVars, crashed>>

\* newImageDataUrl.match(/data:(.*);base64,/)?.[1] || 'image/png'
MimeOf(url) == IF Len(url) = 4 /\ url[2] # "" THEN url[2] ELSE PNG

\* A finally block that leaves the loading flag and its label as they are.
StillLoading == <<isLoading, loadingMessage>>

\* finally { setIsLoading(false); setLoadingMessage(''); } of handleSubmit:
\* <<isLoading, loadingMessage>> after it.
Idle == <<FALSE, "">>

\* The await resolves with a data URL: push, then the rest of the try, then finally.
EditSucceeds(call, url) ==
    /\ BagIn(call, edits)
    /\ edits' = Remove(edits, call)
    /\ savedPrompt' = NoItem
    /\ LET state == ImageState(url, MimeOf(url))
       IN /\ last' = Did("edit", state, call.seen)
          /\ IF crashed
             THEN \* the component is gone: its state setters do nothing
                  UNCHANGED <<hookVars, prompt, sliderPosition, isPanning, zoomSteps, adjustments, isLoading,
                              loadingMessage, savedImage, crashed>>
             ELSE /\ history' = PushHistory(call.history, call.currentIndex, state)
                  /\ currentIndex' = PushIndex(call.history, call.currentIndex, state)
                  /\ prompt' = ""
                  /\ sliderPosition' = NeutralSlider
                  /\ UNCHANGED <<isPanning, zoomSteps>>
                  /\ adjustments' = NeutralAdjustments
                  /\ isLoading' = Idle[1]
                  /\ loadingMessage' = Idle[2]
                  /\ Render(TRUE)
    /\ UNCHANGED <<error, sideVars, transform, uploads, fetches, mounted, quota, studioVars>>

\* A catch that drops the message of the Error it caught.
CaughtMessageGeneric(message) == "An unexpected error occurred."

\* err instanceof Error ? err.message : 'An unexpected error occurred.'
\* (editImageWithNanoBanana rejects with an Error)
CaughtMessage(message) == message

\* The await rejects: catch, then finally.
EditFails(call, message) ==
    /\ BagIn(call, edits)
    /\ IF crashed
       THEN UNCHANGED <<error, isLoading, loadingMessage>>
       ELSE /\ error' = CaughtMessage(message)
            /\ isLoading' = Idle[1]
            /\ loadingMessage' = Idle[2]
    /\ edits' = Remove(edits, call)
    /\ last' = [Did("editFailed", NoImage, call.seen) EXCEPT !.message = message]
    /\ UNCHANGED <<hookVars, prompt, sideVars, viewVars, storeVars, uploads, fetches,
                   mounted, quota, studioVars, crashed>>

\* ------------------------------------------------------------ history buttons
\* The buttons' `disabled` attributes.
UndoDisabled == ~canUndo \/ isLoading
RedoDisabled == ~canRedo \/ isLoading
ResetDisabled == ~canUndo \/ isLoading
ClearDisabled == isLoading
\* The prompt form and the history buttons are rendered only with a current
\* image (and only while the component is mounted).
Shown == current # NoImage /\ ~crashed

Undo ==
    /\ mounted /\ Shown /\ ~UndoDisabled
    /\ currentIndex' = UndoIndex(canUndo, currentIndex)
    /\ history' = history
    /\ edits' = Note("moved")
    /\ last' = Did("undo", NoImage, {})
    /\ Render(TRUE)
    /\ UNCHANGED <<uiVars, sideVars, viewVars, savedPrompt, uploads, fetches, mounted,
                   quota, studioVars>>

Redo ==
    /\ mounted /\ Shown /\ ~RedoDisabled
    /\ currentIndex' = RedoIndex(canRedo, currentIndex)
    /\ history' = history
    /\ edits' = Note("moved")
    /\ last' = Did("redo", NoImage, {})
    /\ Render(TRUE)
    /\ UNCHANGED <<uiVars, sideVars, viewVars, savedPrompt, uploads, fetches, mounted,
                   quota, studioVars>>

HandleReset ==
    /\ mounted /\ Shown /\ ~ResetDisabled
    /\ IF original # NoImage
       THEN /\ history' = ResetHistory(original)
            /\ currentIndex' = ResetIndex
            /\ transform' = NeutralTransform
            /\ zoomSteps' = 0
            /\ adjustments' = NeutralAdjustments
            /\ prompt' = ""
            /\ savedPrompt' = NoItem
            /\ Render(rIndex # 0)
       ELSE UNCHANGED <<hookVars, transform, zoomSteps, adjustments, prompt, storeVars,
                        crashed>>
    /\ last' = Did("reset", original, {})
    /\ UNCHANGED <<isLoading, loadingMessage, error, sideVars, sliderPosition, isPanning,
                   asyncVars, mounted, quota, studioVars>>

\* handleClearSession: the two removeItem calls run; `clear` is not among the
\* members useImageHistory returns, so clear() throws a TypeError and the rest
\* of the handler is not reached.
HandleClearSession ==
    /\ mounted /\ Shown /\ ~ClearDisabled
    /\ savedImage' = NoItem
    /\ savedPrompt' = NoItem
    /\ edits' = Note("cleared")
    /\ last' = [Did("clear", NoImage, {}) EXCEPT !.thrown = TypeError]
    /\ UNCHANGED <<hookVars, uiVars, sideVars, viewVars, uploads, fetches, mounted, quota,
                   studioVars,
                   crashed>>

\* ------------------------------------------------------------ prompt
HandlePromptChange(newPrompt) ==
    /\ mounted /\ Shown
    /\ newPrompt # prompt
    /\ prompt' = newPrompt
    /\ savedPrompt' = SetItem(Text(newPrompt), savedPrompt)
    /\ last' = [Did("type", NoImage, {}) EXCEPT
                   !.thrown = SetItemThrows(Text(newPrompt), savedPrompt)]
    /\ UNCHANGED <<hookVars, isLoading, loadingMessage, error, sideVars, viewVars,
                   savedImage, asyncVars, mounted, quota, studioVars, crashed>>

\* ------------------------------------------------------------ suggestions
\* What generateContent settles with: a response whose text is a JSON array of
\* strings, a JSON object, a JSON array holding a number, or text that is not
\* JSON; or a rejection.
Response(kind, items) == [kind |-> kind, items |-> items]
Str(text) == [type |-> "string", text |-> text]
Num(text) == [type |-> "number", text |-> text]
GoodPayload == Response("array", <<Str("Add a magical glow"), Str("Change the season to winter")>>)
ObjectPayload == Response("object", <<>>)
MixedPayload == Response("array", <<Str("Add a magical glow"), Num("3")>>)
BrokenPayload == Response("text", <<>>)
Rejection == Response("rejected", <<>>)
Responses == {GoodPayload, ObjectPayload, MixedPayload, BrokenPayload, Rejection}

\* An Error: its message, and which of the phrases the catch looks for the
\* lower-cased message includes.
Err(message, includes) == [message |-> message, includes |-> includes]
FormatError == Err("AI response was not in the expected format (array of strings).",
                   {"expected format"})
SyntaxError == Err("Unexpected token 'H', \"Here are s\"... is not valid JSON", {})
FetchError == Err("fetch failed", {"fetch"})
NoError == Err(Null, {})

\* typeof s === 'string'
IsString(s) == s.type = "string"

\* The array as the string[] the caller receives.
Strings(items) == [i \in 1..Len(items) |-> items[i].text]

\* The try block of getPromptSuggestions: the Error it throws, or NoError.
SuggestionsThrown(response) ==
    IF response.kind = "rejected" THEN FetchError
    ELSE IF response.kind = "text" THEN SyntaxError
    ELSE IF response.kind = "array"
            /\ \A i \in 1..Len(response.items) : IsString(response.items[i])
         THEN NoError
    ELSE FormatError

UnexpectedResponse == "The AI returned an unexpected response for suggestions. Please try again."

\* The catch block of getPromptSuggestions: the message of the Error it rethrows.
UserFriendlyError(err) ==
    IF "api key not valid" \in err.includes
    THEN "Could not get suggestions due to an API configuration issue."
    ELSE IF "safety" \in err.includes
    THEN "Suggestions could not be generated for this image due to safety policies."
    ELSE IF "expected format" \in err.includes
    THEN UnexpectedResponse
    ELSE IF "network" \in err.includes \/ "fetch" \in err.includes
    THEN "Network error while fetching suggestions. Please check your connection."
    ELSE IF err.message # "" THEN err.message
    ELSE "Failed to generate AI suggestions. Please try again."

\* A "Get suggestions" button that stays while a fetch is outstanding.
SuggestShownWhileGenerating == Shown /\ suggestions = <<>>

\* The "Get suggestions" button is rendered.
SuggestShown == Shown /\ ~isGeneratingSuggestions /\ suggestions = <<>>

\* handleGetSuggestions, up to the await.
HandleGetSuggestions ==
    /\ mounted /\ SuggestShown
    /\ suggestions' = <<>>
    /\ IF current.dataUrl = NullUrl
       THEN \* current.dataUrl.split throws inside the try: catch, then finally
            /\ suggestionError' = NullSplit
            /\ isGeneratingSuggestions' = FALSE
            /\ UNCHANGED fetches
       ELSE /\ suggestionError' = ClearSlot(suggestionError)
            /\ isGeneratingSuggestions' = TRUE
            /\ fetches' = Add(fetches, [image |-> current])
    /\ last' = Did("suggest", current, {})
    /\ UNCHANGED <<hookVars, uiVars, speechRecognitionError, viewVars, storeVars, edits,
                   uploads, mounted, quota, studioVars, crashed>>

\* The await settles: setSuggestions or the catch, then finally.
SuggestionsSettle(call, response) ==
    /\ BagIn(call, fetches)
    /\ fetches' = Remove(fetches, call)
    /\ LET err == SuggestionsThrown(response)
       IN /\ last' = Did(IF err = NoError THEN "suggested" ELSE "suggestFailed", call.image,
                         IF response.kind \in {"rejected"} \/ err = NoError THEN {}
                         ELSE {"malformed"})
          /\ IF crashed
             THEN UNCHANGED <<suggestions, suggestionError, isGeneratingSuggestions>>
             ELSE /\ suggestions' = IF err = NoError THEN Strings(response.items) ELSE suggestions
                  /\ suggestionError' = IF err = NoError THEN suggestionError
                                        ELSE UserFriendlyError(err)
                  /\ isGeneratingSuggestions' = FALSE
    /\ UNCHANGED <<hookVars, uiVars, speechRecognitionError, viewVars, storeVars, edits,
                   uploads, mounted, quota, studioVars, crashed>>

\* A suggestion button: onClick={() => setPrompt(s)}
ChooseSuggestion(i) ==
    /\ mounted /\ Shown
    /\ i \in 1..Len(suggestions)
    /\ prompt' = suggestions[i]
    /\ last' = Did("choose", NoImage, {})
    /\ UNCHANGED <<hookVars, isLoading, loadingMessage, error, sideVars, viewVars, storeVars,
                   asyncVars, mounted, quota, studioVars, crashed>>

\* ------------------------------------------------------------ image functions
\* utils/imageOptimizer.  What an async function settles with: the value it
\* resolves to, or the message of the Error it rejects with.
Returns(value) == [ok |-> TRUE, value |-> value]
Throws(message) == [ok |-> FALSE, message |-> message]

\* The bytes of an image after browser-image-compression, and after a canvas
\* filter was drawn over them.
Squeezed(data) ==
    CASE data = "u1" -> "u1~" [] data = "u2" -> "u2~" [] data = "y1" -> "y1~"
      [] data = "u1*" -> "u1*~" [] data = "u2*" -> "u2*~" [] data = "y1*" -> "y1*~"
      [] OTHER -> "~"
Filtered(data) ==
    CASE data = "u1" -> "u1*" [] data = "u2" -> "u2*" [] data = "y1" -> "y1*"
      [] OTHER -> "*"

\* imageCompression(file, options) when it resolves: a smaller file of the
\* same type.
ImageCompression(file) == [type |-> file.type, data |-> Squeezed(file.data)]

CompressionFailed == "Image compression failed"

\* An optimizeImage whose catch rethrows.
OptimizeImageRethrows(file, compresses) ==
    IF compresses THEN Returns(ImageCompression(file)) ELSE Throws(CompressionFailed)

\* optimizeImage(file); `compresses`: imageCompression resolves.
OptimizeImage(file, compresses) ==
    IF compresses THEN Returns(ImageCompression(file)) ELSE Returns(file)

\* A string that is a data URL (fetch and <img> can load it).
IsDataUrl(url) == Len(url) = 4

FailedToFetch == "Failed to fetch"
NoSplit == "Cannot read properties of undefined (reading 'split')"

\* dataURLtoFile(dataUrl, filename); `fetched`: fetch(dataUrl) resolves.
DataURLtoFile(dataUrl, fetched) ==
    IF fetched /\ IsDataUrl(dataUrl)
    THEN Returns([type |-> dataUrl[2], data |-> dataUrl[4]])
    ELSE Throws(FailedToFetch)

OutputQualities == {"low", "medium", "high"}

\* qualityOptions[quality]: <<maxSizeMB in tenths, initialQuality in hundredths>>
QualityOptions(quality) ==
    CASE quality = "low" -> <<5, 60>>
      [] quality = "medium" -> <<10, 80>>
      [] quality = "high" -> <<50, 95>>

\* compressImageForDownload(dataUrl, mimeType, quality); `compresses`:
\* imageCompression resolves; `converts`: getDataUrlFromFile resolves.  The
\* file name is built and dataURLtoFile is awaited before the try block.
CompressImageForDownload(dataUrl, mimeType, quality, fetched, compresses, converts) ==
    IF mimeType = Undefined THEN Throws(NoSplit)
    ELSE LET file == DataURLtoFile(dataUrl, fetched)
         IN IF ~file.ok THEN file
            ELSE IF compresses /\ converts
            THEN Returns(DataUrl(file.value.type, ImageCompression(file.value).data))
            ELSE Returns(dataUrl)

\* The range inputs of the adjustments panel: min 50, max 150.
Levels == {50, 100, 150}

NoCanvasContext == "Could not get canvas context"
FailedToLoad == "Failed to load image for adjustments: [object Event]"

\* applyVisualAdjustments makes an Image of the data URL (and decodes it)
\* unless both settings are neutral.
Decodes(brightness, contrast) == ~(brightness = 100 /\ contrast = 100)

\* An applyVisualAdjustments without the shortcut for neutral settings.
ApplyVisualAdjustmentsAlways(dataUrl, brightness, contrast, loads, context) ==
    IF ~(loads /\ IsDataUrl(dataUrl)) THEN Throws(FailedToLoad)
    ELSE IF ~context THEN Throws(NoCanvasContext)
    ELSE Returns(DataUrl(dataUrl[2], Filtered(dataUrl[4])))

\* applyVisualAdjustments(dataUrl, brightness, contrast); `loads`: img.onload
\* fires (img.onerror otherwise); `context`: canvas.getContext('2d') is not null.
ApplyVisualAdjustments(dataUrl, brightness, contrast, loads, context) ==
    IF ~Decodes(brightness, contrast) THEN Returns(dataUrl)
    ELSE IF ~(loads /\ IsDataUrl(dataUrl)) THEN Throws(FailedToLoad)
    ELSE IF ~context THEN Throws(NoCanvasContext)
    ELSE Returns(DataUrl(dataUrl[2], Filtered(dataUrl[4])))

\* A call of compressImageForDownload and of applyVisualAdjustments: the
\* arguments, what the browser did, and what the call settled with.
CompressCall(dataUrl, mimeType, quality, fetched, compresses, converts) ==
    [fn |-> "compressImageForDownload", dataUrl |-> dataUrl, mimeType |-> mimeType,
     options |-> QualityOptions(quality), fetched |-> fetched, compresses |-> compresses,
     converts |-> converts,
     result |-> CompressImageForDownload(dataUrl, mimeType, quality, fetched, compresses,
                                         converts)]

AdjustCall(dataUrl, brightness, contrast, loads, context) ==
    [fn |-> "applyVisualAdjustments", dataUrl |-> dataUrl, brightness |-> brightness,
     contrast |-> contrast, loads |-> loads /\ IsDataUrl(dataUrl), context |-> context,
     decoded |-> Decodes(brightness, contrast),
     result |-> ApplyVisualAdjustments(dataUrl, brightness, contrast, loads, context)]

\* ------------------------------------------------------------ the edit service
\* services/geminiService: editImageWithNanoBanana.  A part of the response:
\* text, or inline image data.
Part(inlineData, mime, data) == [inlineData |-> inlineData, mimeType |-> mime, data |-> data]
TextPart == Part(FALSE, Undefined, Undefined)
ImagePart(mime, data) == Part(TRUE, mime, data)
Parts == {TextPart, ImagePart(JPEG, "y1"), ImagePart(PNG, "u2")}

\* candidate.content.parts: up to MaxParts parts.
PartLists == UNION {[1..n -> Parts] : n \in 0..MaxParts}

\* candidate.finishReason
FinishReasons == {Undefined, "STOP", "SAFETY", "MAX_TOKENS"}

\* response.candidates?.[0]: undefined, a candidate without content, or one
\* with parts.
Candidate(content, parts, finishReason) ==
    [present |-> TRUE, content |-> content, parts |-> parts, finishReason |-> finishReason]
NoCandidate ==
    [present |-> FALSE, content |-> FALSE, parts |-> <<>>, finishReason |-> Undefined]
Candidates ==
    {NoCandidate}
    \cup {Candidate(FALSE, <<>>, reason) : reason \in FinishReasons}
    \cup {Candidate(TRUE, parts, reason) : parts \in PartLists, reason \in FinishReasons}

\* What generateContent rejects with: Errors of the SDK and of fetch.
KeyError == Err("API key not valid. Please pass a valid API key.", {"api key not valid"})
QuotaError == Err("You exceeded your current quota.", {})
Rejections == {KeyError, FetchError, QuotaError}

\* What generateContent settles with.
Resolved(candidate) == [kind |-> "resolved", candidate |-> candidate, error |-> NoError]
Rejected(err) == [kind |-> "rejected", candidate |-> NoCandidate, error |-> err]
EditResponses == {Resolved(candidate) : candidate \in Candidates}
                 \cup {Rejected(err) : err \in Rejections}

\* The parts the for loop goes over: none unless the candidate has content.
PartsOf(response) ==
    IF response.kind = "resolved" /\ response.candidate.present
       /\ response.candidate.content
    THEN response.candidate.parts ELSE <<>>

\* if (part.inlineData)
HasImage(part) == part.inlineData

\* A loop that keeps the last part with image data.
LastImagePart(parts) ==
    IF \E i \in 1..Len(parts) : HasImage(parts[i])
    THEN CHOOSE i \in 1..Len(parts) :
             HasImage(parts[i]) /\ \A j \in (i + 1)..Len(parts) : ~HasImage(parts[j])
    ELSE 0

\* The part the for loop returns from: the first with image data, 0 if none.
FirstImagePart(parts) ==
    IF \E i \in 1..Len(parts) : HasImage(parts[i])
    THEN CHOOSE i \in 1..Len(parts) :
             HasImage(parts[i]) /\ \A j \in 1..(i - 1) : ~HasImage(parts[j])
    ELSE 0

\* `Image generation failed. Reason: ${finishReason}. ...`
FinishFailed(reason) ==
    Err(CASE reason = "SAFETY" ->
               "Image generation failed. Reason: SAFETY. This can happen if the prompt violates safety policies."
          [] reason = "MAX_TOKENS" ->
               "Image generation failed. Reason: MAX_TOKENS. This can happen if the prompt violates safety policies.",
        {"safety"})
NoImageData ==
    Err("No image data found in the AI's response. The model may have refused the request.",
        {"no image data found"})

\* The try block of editImageWithNanoBanana when it does not return: the
\* Error that reaches the catch.
EditThrown(response) ==
    IF response.kind = "rejected" THEN response.error
    ELSE IF response.candidate.present
            /\ response.candidate.finishReason \notin {Undefined, "STOP"}
         THEN FinishFailed(response.candidate.finishReason)
    ELSE NoImageData

InvalidConfiguration ==
    "There is an issue with the API configuration. The provided API key is invalid."
PolicyRejection ==
    "Your request could not be processed due to safety policies. Please modify your prompt and try again."
MalformedResponse ==
    "The AI couldn't generate an image for this request. Try rephrasing your prompt or using a different image."
TransportFailure ==
    "A network error occurred. Please check your internet connection and try again."
UnexpectedIssue ==
    "Failed to edit image due to an unexpected issue. Please try again later."

\* error instanceof Error
IsError(err) == err.message # Null

\* The catch block of editImageWithNanoBanana: the message of the Error it
\* rethrows.
EditFriendlyError(err) ==
    IF ~IsError(err) THEN UnexpectedIssue
    ELSE IF "api key not valid" \in err.includes THEN InvalidConfiguration
    ELSE IF "safety" \in err.includes THEN PolicyRejection
    ELSE IF "no image data found" \in err.includes THEN MalformedResponse
    ELSE IF "network" \in err.includes \/ "fetch" \in err.includes THEN TransportFailure
    ELSE err.message

\* editImageWithNanoBanana(base64Image, mimeType, prompt), by what
\* generateContent settles with.
EditImageWithNanoBanana(response) ==
    LET parts == PartsOf(response)
        i == FirstImagePart(parts)
    IN IF i # 0
       THEN Returns(DataUrl(parts[i].mimeType, parts[i].data))
       ELSE Throws(EditFriendlyError(EditThrown(response)))

EditCall(response) ==
    [fn |-> "editImageWithNanoBanana", response |-> response,
     result |-> EditImageWithNanoBanana(response)]

\* ------------------------------------------------------------ rejected submit
\* handleSubmit called (the form submitted) when its guard does not hold: the
\* early return.
HandleSubmitRejected ==
    /\ mounted /\ Shown
    /\ ~Accepted
    /\ last' = Did("submitRejected", NoImage, {})
    /\ UNCHANGED <<hookVars, uiVars, sideVars, viewVars, storeVars, asyncVars, mounted, quota,
                   studioVars, crashed>>

\* ------------------------------------------------------------ adjustments
\* onChange of the brightness range input (the contrast stays as it is).
SetBrightness(value) ==
    /\ mounted /\ Shown
    /\ adjustments' = <<value, adjustments[2]>>
    /\ last' = Did("brightness", NoImage, {})
    /\ UNCHANGED <<hookVars, uiVars, sideVars, transform, sliderPosition, isPanning, zoomSteps,
                   storeVars,
                   asyncVars,
                   mounted, quota, studioVars, crashed>>

\* What an attempt found in its error slot when it started.
Found(slot) == IF slot # Null THEN {"error"} ELSE {}

\* ------------------------------------------------------------ download
PreparingDownload == "Preparing download..."

\* A handleDownload call: the await it is suspended at ("adjusting",
\* "compressing"), the current, brightness, contrast and outputQuality of
\* the render it was made in, and adjustedDataUrl once the first await resolved.
Download(stage, image, settings, quality, adjusted) ==
    [stage |-> stage, image |-> image, settings |-> settings, quality |-> quality,
     adjusted |-> adjusted]

\* handleDownload, up to the first await.  `quality` is the outputQuality the
\* user has selected.
HandleDownload(quality) ==
    /\ mounted /\ Shown
    /\ ~isLoading
    /\ BagCardinality(downloads) < MaxInFlight
    /\ isLoading' = TRUE
    /\ loadingMessage' = PreparingDownload
    /\ error' = ClearSlot(error)
    /\ downloads' = Add(downloads, Download("adjusting", current, adjustments, quality, NullUrl))
    /\ last' = Did("downloadStart", current, Found(error))
    /\ UNCHANGED <<hookVars, prompt, sideVars, viewVars, storeVars, asyncVars, mounted, quota,
                   voiceVars, shares, shareStatus, applied, crashed>>

\* A handleDownload that compresses the image as it is in the history.
CompressInputUnadjusted(call) == call.image.dataUrl

\* compressImageForDownload(adjustedDataUrl, ...)
CompressInput(call) == call.adjusted

\* The catch and the finally of handleDownload.
DownloadCaught(message) ==
    IF crashed
    THEN UNCHANGED <<error, isLoading, loadingMessage>>
    ELSE /\ error' = CaughtMessage(message)
         /\ isLoading' = FALSE
         /\ loadingMessage' = ""

\* await applyVisualAdjustments(...) settles.
DownloadAdjusted(call, loads, context) ==
    /\ BagIn(call, downloads)
    /\ call.stage = "adjusting"
    /\ LET made == AdjustCall(call.image.dataUrl, call.settings[1], call.settings[2], loads,
                              context)
       IN /\ IF made.result.ok
             THEN /\ downloads' = Add(Remove(downloads, call),
                                      [call EXCEPT !.stage = "compressing",
                                                   !.adjusted = made.result.value])
                  /\ last' = Did("downloadAdjusted", call.image, {})
                  /\ UNCHANGED <<error, isLoading, loadingMessage>>
             ELSE /\ downloads' = Remove(downloads, call)
                  /\ last' = [Did("downloadFailed", call.image, {"adjusting"}) EXCEPT
                                 !.message = made.result.message]
                  /\ DownloadCaught(made.result.message)
    /\ UNCHANGED <<hookVars, prompt, sideVars, viewVars, storeVars, asyncVars, mounted, quota,
                   voiceVars, shares, shareStatus, applied, crashed>>

\* await compressImageForDownload(...) settles; the link is clicked; finally.
\* The step records the image that was handed to compressImageForDownload.
DownloadCompressed(call, fetched, compresses, converts) ==
    /\ BagIn(call, downloads)
    /\ call.stage = "compressing"
    /\ downloads' = Remove(downloads, call)
    /\ LET made == CompressCall(CompressInput(call), call.image.mimeType, call.quality,
                                fetched, compresses, converts)
           given == ImageState(made.dataUrl, made.mimeType)
       IN IF made.result.ok
          THEN /\ last' = Did("download", given, {"compressing"})
               /\ IF crashed
                  THEN UNCHANGED <<isLoading, loadingMessage>>
                  ELSE isLoading' = FALSE /\ loadingMessage' = ""
               /\ UNCHANGED error
          ELSE /\ last' = [Did("downloadFailed", given, {"compressing"}) EXCEPT
                              !.message = made.result.message]
               /\ DownloadCaught(made.result.message)
    /\ UNCHANGED <<hookVars, prompt, sideVars, viewVars, storeVars, asyncVars, mounted, quota,
                   voiceVars, shares, shareStatus, applied, crashed>>

\* ------------------------------------------------------------ share
\* How the awaits of handleShare after the adjustment end: navigator.share
\* resolves or rejects (the user dismissed the sheet), clipboard.write
\* resolves, neither API exists, or fetch(adjustedDataUrl) rejects.
ShareOutcomes == {"shared", "dismissed", "copied", "unsupported", "unfetched"}

SharingUnsupported == "Sharing and clipboard access are not supported in this browser."
ShareDismissed == "Share canceled"

\* The message of the Error the try block of handleShare throws, or Null.
ShareThrown(adjusted, outcome) ==
    IF ~adjusted.ok THEN adjusted.message
    ELSE IF outcome = "unfetched" THEN FailedToFetch
    ELSE IF outcome = "dismissed" THEN ShareDismissed
    ELSE IF outcome = "unsupported" THEN SharingUnsupported
    ELSE Null

\* The Share button's `disabled` attribute.
ShareDisabled == shareStatus = "copied" \/ isLoading

\* A handleShare that raises the loading overlay as handleDownload does.
HandleShareBusy ==
    /\ mounted /\ Shown /\ ~ShareDisabled
    /\ BagCardinality(shares) < MaxInFlight
    /\ isLoading' = TRUE
    /\ loadingMessage' = PreparingDownload
    /\ error' = ClearSlot(error)
    /\ shares' = Add(shares, [image |-> current, settings |-> adjustments])
    /\ last' = Did("shareStart", current, Found(error))
    /\ UNCHANGED <<hookVars, prompt, sideVars, viewVars, storeVars,
                   asyncVars, mounted, quota, voiceVars, downloads, shareStatus, applied,
                   crashed>>

\* handleShare, up to the first await.
HandleShare ==
    /\ mounted /\ Shown /\ ~ShareDisabled
    /\ BagCardinality(shares) < MaxInFlight
    /\ error' = ClearSlot(error)
    /\ shares' = Add(shares, [image |-> current, settings |-> adjustments])
    /\ last' = Did("shareStart", current, Found(error))
    /\ UNCHANGED <<hookVars, prompt, isLoading, loadingMessage, sideVars, viewVars, storeVars,
                   asyncVars, mounted, quota, voiceVars, downloads, shareStatus, applied,
                   crashed>>

\* The awaits of handleShare settle: the rest of the try, or the catch.
ShareSettles(call, loads, context, outcome) ==
    /\ BagIn(call, shares)
    /\ shares' = Remove(shares, call)
    /\ LET made == AdjustCall(call.image.dataUrl, call.settings[1], call.settings[2], loads,
                              context)
           message == ShareThrown(made.result, outcome)
       IN /\ last' = [Did(IF message = Null THEN "share" ELSE "shareFailed", call.image,
                          {outcome}) EXCEPT !.message = message]
          /\ IF crashed
             THEN UNCHANGED <<error, shareStatus>>
             ELSE /\ error' = IF message = Null THEN error ELSE CaughtMessage(message)
                  /\ shareStatus' = IF message = Null /\ outcome = "copied" THEN "copied"
                                    ELSE shareStatus
    /\ UNCHANGED <<hookVars, prompt, isLoading, loadingMessage, sideVars, viewVars, storeVars,
                   asyncVars, mounted, quota, voiceVars, downloads, applied, crashed>>

\* setTimeout(() => setShareStatus('idle'), 2000)
CopiedExpires ==
    /\ shareStatus = "copied"
    /\ shareStatus' = "idle"
    /\ last' = Did("copiedExpires", NoImage, {})
    /\ UNCHANGED <<hookVars, uiVars, sideVars, viewVars, storeVars, asyncVars, mounted, quota,
                   voiceVars, downloads, shares, applied, crashed>>

\* ------------------------------------------------------------ voice capture
VoiceUnsupported == "Voice input is not supported in this browser."

\* event.results[0][0].transcript
Transcripts == {" make it blue"}

\* String.prototype.trim, on the texts of this model.
Trim(text) == IF text = " make it blue" THEN "make it blue" ELSE text

\* first + ' ' + second, on the texts of this model.
Spaced(first, second) ==
    CASE first = "add hat" /\ second = "make it blue" -> "add hat make it blue"

\* (prompt.trim() ? prompt.trim() + ' ' : '') + transcript.trim()
NewPrompt(closed, transcript) ==
    IF Trim(closed) # "" THEN Spaced(Trim(closed), Trim(transcript)) ELSE Trim(transcript)

\* event.error
SpeechErrors == {"no-speech", "audio-capture", "not-allowed", "network"}

\* A recognition.onerror that reports every error with the same words.
SpeechErrorMessageSame(code) == "An error occurred"

\* recognition.onerror: errorMsg
SpeechErrorMessage(code) ==
    CASE code = "no-speech" -> "No speech was detected. Please try again."
      [] code = "audio-capture" -> "Microphone not available. Please check your permissions."
      [] code = "not-allowed" -> "Permission to use microphone was denied. Please allow microphone access in your browser settings."
      [] code = "network" -> "An error occurred: network"

\* A stop() that does nothing.
StopIgnored(session) == session

\* recognitionRef.current?.stop(): nothing without a session or on one that is
\* already stopping or ending; a session that is starting or listening stops.
Stopped(session) ==
    IF session.stage \in {"starting", "listening"}
    THEN [session EXCEPT !.stage = "stopping"]
    ELSE session

\* The state setters of a component that React has unmounted do nothing.
Gone == crashed \/ ~mounted

\* handleToggleRecording.  `supported`: the browser has SpeechRecognition.
\* The button is not pressed again between a start and its onstart, and a
\* prompt that was dictated is not dictated onto.
HandleToggleRecording(supported) ==
    /\ mounted /\ Shown
    /\ IF ~supported
       THEN /\ ~isRecording /\ recognition = NoRecognition
            /\ speechRecognitionError' = VoiceUnsupported
            /\ last' = Did("voiceUnsupported", NoImage, {})
            /\ UNCHANGED recognition
       ELSE IF isRecording
       THEN \* recognitionRef.current?.stop()
            /\ recognition' = Stopped(recognition)
            /\ last' = Did("voiceStop", NoImage, {})
            /\ UNCHANGED speechRecognitionError
       ELSE /\ recognition = NoRecognition
            /\ prompt \in PromptTexts
            /\ recognition' = Recognition("starting", prompt)
            /\ last' = Did("voiceToggle", NoImage, {})
            /\ UNCHANGED speechRecognitionError
    /\ UNCHANGED <<hookVars, uiVars, suggestions, isGeneratingSuggestions, suggestionError,
                   viewVars, storeVars, asyncVars, mounted, quota, isRecording, exportVars,
                   applied, crashed>>

\* recognition.onstart
VoiceStart ==
    /\ recognition.stage = "starting"
    /\ recognition' = [recognition EXCEPT !.stage = "listening"]
    /\ IF Gone
       THEN UNCHANGED <<isRecording, speechRecognitionError>>
       ELSE /\ isRecording' = TRUE
            /\ speechRecognitionError' = ClearSlot(speechRecognitionError)
    /\ last' = Did("voiceStart", NoImage, Found(speechRecognitionError))
    /\ UNCHANGED <<hookVars, uiVars, suggestions, isGeneratingSuggestions, suggestionError,
                   viewVars, storeVars, asyncVars, mounted, quota, exportVars, applied,
                   crashed>>

\* recognition.onresult (continuous is false: one result, then the capture ends)
VoiceResult(transcript) ==
    /\ recognition.stage \in {"listening", "stopping"}
    /\ recognition' = [recognition EXCEPT !.stage = "ending"]
    /\ LET newPrompt == NewPrompt(recognition.prompt, transcript)
       IN /\ prompt' = IF Gone THEN prompt ELSE newPrompt
          /\ savedPrompt' = SetItem(Text(newPrompt), savedPrompt)
          /\ last' = [Did("transcript", NoImage, {}) EXCEPT
                         !.message = transcript,
                         !.thrown = SetItemThrows(Text(newPrompt), savedPrompt)]
    /\ UNCHANGED <<hookVars, isLoading, loadingMessage, error, sideVars, viewVars, savedImage,
                   asyncVars, mounted, quota, isRecording, exportVars, applied, crashed>>

\* An onerror that reports to the main error slot.
VoiceReportedAsMain(message) == <<message, speechRecognitionError>>

\* setSpeechRecognitionError(errorMsg): <<error, speechRecognitionError>> after it
VoiceReported(message) == <<error, message>>

\* recognition.onerror
VoiceError(code) ==
    /\ recognition.stage \in {"starting", "listening", "stopping"}
    /\ recognition' = [recognition EXCEPT !.stage = "ending"]
    /\ IF Gone
       THEN UNCHANGED <<error, speechRecognitionError>>
       ELSE /\ error' = VoiceReported(SpeechErrorMessage(code))[1]
            /\ speechRecognitionError' = VoiceReported(SpeechErrorMessage(code))[2]
    /\ last' = [Did("voiceError", NoImage, {code}) EXCEPT !.message = SpeechErrorMessage(code)]
    /\ UNCHANGED <<hookVars, prompt, isLoading, loadingMessage, suggestions,
                   isGeneratingSuggestions, suggestionError, viewVars, storeVars, asyncVars,
                   mounted, quota, isRecording, exportVars, applied, crashed>>

\* recognition.onend
VoiceEnd ==
    /\ recognition.stage \in {"listening", "stopping", "ending"}
    /\ recognition' = NoRecognition
    /\ isRecording' = IF Gone THEN isRecording ELSE FALSE
    /\ last' = Did("voiceEnd", NoImage, {})
    /\ UNCHANGED <<hookVars, uiVars, sideVars, viewVars, storeVars, asyncVars, mounted, quota,
                   exportVars, applied, crashed>>

\* The component is torn down: the cleanup of the unmount effect stops the
\* session the ref holds, and the state of the component is gone (a later
\* mount constructs it anew).  localStorage and the suspended calls are left.
Unmount ==
    /\ mounted /\ ~crashed
    /\ recognition' = Stopped(recognition)
    /\ mounted' = FALSE
    /\ history' = <<>>
    /\ currentIndex' = -1
    /\ rHistory' = <<>>
    /\ rIndex' = -1
    /\ calls' = 0
    /\ prompt' = ""
    /\ isLoading' = FALSE
    /\ loadingMessage' = ""
    /\ error' = Null
    /\ suggestions' = <<>>
    /\ isGeneratingSuggestions' = FALSE
    /\ suggestionError' = Null
    /\ speechRecognitionError' = Null
    /\ transform' = NeutralTransform
    /\ adjustments' = NeutralAdjustments
    /\ sliderPosition' = NeutralSlider
    /\ isPanning' = FALSE
    /\ zoomSteps' = 0
    /\ isRecording' = FALSE
    /\ shareStatus' = "idle"
    /\ last' = Did("unmount", NoImage,
                   IF recognition = NoRecognition THEN {} ELSE {recognition.stage})
    /\ UNCHANGED <<storeVars, asyncVars, quota, downloads, shares, applied, crashed>>

\* ------------------------------------------------------------ view
\* MIN_ZOOM and MAX_ZOOM, in thousandths.
MIN_ZOOM == 1000
MAX_ZOOM == 10000

\* canvasRef.current.getBoundingClientRect()
CanvasRect == [width |-> 400, height |-> 300]

Abs(a) == IF a >= 0 THEN a ELSE -a
Max(a, b) == IF a >= b THEN a ELSE b
Min(a, b) == IF a <= b THEN a ELSE b

\* direction === 'in' ? transform.scale * zoomFactor : transform.scale / zoomFactor,
\* with zoomFactor = 1.5
ZoomedScale(scale, direction) ==
    IF direction = "in" THEN (scale * 3) \div 2 ELSE (scale * 2) \div 3

\* Math.max(MIN_ZOOM, Math.min(MAX_ZOOM, newScale))
ClampedScale(newScale) == Max(MIN_ZOOM, Min(MAX_ZOOM, newScale))

\* center - (center - offset) * scaleChange, scaleChange = clampedScale / transform.scale
ZoomedOffset(center, offset, clampedScale, scale) ==
    center - ((center - offset) * clampedScale) \div scale

\* The zoom buttons' `disabled` attributes.
ZoomDisabled(direction) ==
    IF direction = "in" THEN transform.scale >= MAX_ZOOM ELSE transform.scale <= MIN_ZOOM

\* manualZoom(direction)
ManualZoom(direction) ==
    /\ mounted /\ Shown /\ ~ZoomDisabled(direction)
    /\ zoomSteps < MaxZoomSteps
    /\ LET clampedScale == ClampedScale(ZoomedScale(transform.scale, direction))
       IN transform' = [scale |-> clampedScale,
                        x |-> ZoomedOffset(CanvasRect.width \div 2, transform.x, clampedScale,
                                           transform.scale),
                        y |-> ZoomedOffset(CanvasRect.height \div 2, transform.y, clampedScale,
                                           transform.scale)]
    /\ zoomSteps' = IF transform' = NeutralTransform THEN 0 ELSE zoomSteps + 1
    /\ last' = Did("zoom", NoImage, {direction})
    /\ UNCHANGED <<hookVars, uiVars, sideVars, adjustments, sliderPosition, isPanning, storeVars,
                   asyncVars, mounted, quota, studioVars, crashed>>

\* Where the pointer is over the canvas when the wheel turns (clientX -
\* rect.left, clientY - rect.top): its middle.
WheelPoints == {<<200, 150>>}

\* e.deltaY of a wheel event.
WheelDeltas == {-100, 100}

\* e.deltaY < 0 ? transform.scale * zoomFactor : transform.scale / zoomFactor,
\* with zoomFactor = 1.1
WheelScale(scale, deltaY) ==
    IF deltaY < 0 THEN (scale * 11) \div 10 ELSE (scale * 10) \div 11

\* A wheel handler that does not clamp.
WheelClampNone(newScale) == newScale

\* Math.max(MIN_ZOOM, Math.min(MAX_ZOOM, newScale)) of handleWheel
WheelClamp(newScale) == Max(MIN_ZOOM, Min(MAX_ZOOM, newScale))

\* handleWheel, on the canvas (which is rendered with or without an image)
HandleWheel(deltaY, mouse) ==
    /\ mounted /\ ~crashed
    /\ zoomSteps < MaxZoomSteps
    /\ LET clampedScale == WheelClamp(WheelScale(transform.scale, deltaY))
       IN transform' = [scale |-> clampedScale,
                        x |-> ZoomedOffset(mouse[1], transform.x, clampedScale, transform.scale),
                        y |-> ZoomedOffset(mouse[2], transform.y, clampedScale, transform.scale)]
    /\ zoomSteps' = IF transform' = NeutralTransform THEN 0 ELSE zoomSteps + 1
    /\ last' = Did("wheel", NoImage, {})
    /\ UNCHANGED <<hookVars, uiVars, sideVars, adjustments, sliderPosition, isPanning,
                   storeVars, asyncVars, mounted, quota, studioVars, crashed>>

\* A pan that starts at any scale.
PanStartsAlways(main) == main

\* handlePanStart gets past its two returns: the main button (or a touch),
\* and transform.scale > 1.
PanStarts(main) == main /\ ~(transform.scale <= NeutralTransform.scale)

\* handlePanStart; `main`: not a mouse button other than the main one.
HandlePanStart(main) ==
    /\ mounted /\ ~crashed
    /\ isPanning' = IF PanStarts(main) THEN TRUE ELSE isPanning
    /\ last' = Did("panStart", NoImage, IF PanStarts(main) THEN {"started"} ELSE {})
    /\ UNCHANGED <<hookVars, uiVars, sideVars, transform, adjustments, sliderPosition,
                   zoomSteps, storeVars, asyncVars, mounted, quota, studioVars, crashed>>

\* e.movementX, e.movementY of a pointer move.
Movements == {<<100, 0>>}

\* handlePanMove: nothing unless a pan is under way.
HandlePanMove(movement) ==
    /\ mounted /\ ~crashed
    /\ isPanning
    /\ transform' = [transform EXCEPT !.x = @ + movement[1], !.y = @ + movement[2]]
    /\ Abs(transform'.x) <= MaxOffset /\ Abs(transform'.y) <= MaxOffset
    /\ last' = Did("panMove", NoImage, {})
    /\ UNCHANGED <<hookVars, uiVars, sideVars, adjustments, sliderPosition, isPanning,
                   zoomSteps, storeVars, asyncVars, mounted, quota, studioVars, crashed>>

\* handlePanEnd (pointer up, leave or cancel)
HandlePanEnd ==
    /\ mounted /\ ~crashed
    /\ isPanning' = FALSE
    /\ last' = Did("panEnd", NoImage, {})
    /\ UNCHANGED <<hookVars, uiVars, sideVars, transform, adjustments, sliderPosition,
                   zoomSteps, storeVars, asyncVars, mounted, quota, studioVars, crashed>>

\* resetView, from its button (disabled at the neutral transform)
ResetView ==
    /\ mounted /\ Shown
    /\ transform # NeutralTransform
    /\ transform' = NeutralTransform
    /\ zoomSteps' = 0
    /\ last' = Did("resetView", NoImage, {})
    /\ UNCHANGED <<hookVars, uiVars, sideVars, adjustments, sliderPosition, isPanning, storeVars,
                   asyncVars, mounted, quota, studioVars, crashed>>

\* Where the pointer is over the comparison slider, in percent of its width.
SliderPositions == {0, 25, 50, 100}

\* handleSlideStart -> handleSlideMove: the comparison slider is rendered when
\* canUndo && original.
HandleSlideStart(percentage) ==
    /\ mounted /\ Shown
    /\ canUndo /\ original # NoImage
    /\ sliderPosition' = Max(0, Min(100, percentage))
    /\ last' = Did("slide", NoImage, {})
    /\ UNCHANGED <<hookVars, uiVars, sideVars, transform, adjustments, isPanning, zoomSteps,
                   storeVars,
                   asyncVars, mounted, quota, studioVars, crashed>>

\* ------------------------------------------------------------ the Editor
Next ==
    \/ Mount
    \/ \E file \in Files : HandleDrop(file)
    \/ \E file \in BagToSet(uploads), read \in BOOLEAN : UploadLoaded(file, read)
    \/ HandleSubmit
    \/ \E call \in BagToSet(edits), url \in AIResults : EditSucceeds(call, url)
    \/ \E call \in BagToSet(edits), message \in AIErrors : EditFails(call, message)
    \/ Undo
    \/ Redo
    \/ HandleReset
    \/ HandleClearSession
    \/ \E newPrompt \in PromptTexts : HandlePromptChange(newPrompt)

Spec == Init /\ [][Next]_vars

\* ------------------------------------------------------------ the hook alone
\* useImageHistory(initialState) under a client that calls what the hook
\* returned at the last render, any number of times, before React re-renders.
ImageA == ImageState(DataUrl(PNG, "a"), PNG)
ImageB == ImageState(DataUrl(PNG, "b"), PNG)
ImageC == ImageState(DataUrl(PNG, "c"), PNG)
ImageD == ImageState(DataUrl(PNG, "d"), PNG)
HookImages == {ImageA, ImageB, ImageC, ImageD}

HookInit ==
    /\ \E initialState \in {NoImage, ImageA} :
          /\ history = IF initialState # NoImage THEN <<initialState>> ELSE <<>>
          /\ currentIndex = IF initialState # NoImage THEN 0 ELSE -1
    /\ rHistory = history
    /\ rIndex = currentIndex
    /\ calls = 0
    /\ prompt = ""
    /\ isLoading = FALSE
    /\ loadingMessage = ""
    /\ error = Null
    /\ suggestions = <<>>
    /\ isGeneratingSuggestions = FALSE
    /\ suggestionError = Null
    /\ speechRecognitionError = Null
    /\ transform = NeutralTransform
    /\ adjustments = NeutralAdjustments
    /\ sliderPosition = NeutralSlider
    /\ isPanning = FALSE
    /\ zoomSteps = 0
    /\ savedImage = NoItem
    /\ savedPrompt = NoItem
    /\ edits = EmptyBag
    /\ uploads = EmptyBag
    /\ fetches = EmptyBag
    /\ mounted = FALSE
    /\ quota = FALSE
    /\ crashed = FALSE
    /\ StudioInit
    /\ last = Did("init", NoImage, {})

editorVars == <<uiVars, sideVars, viewVars, storeVars, asyncVars, mounted, quota, studioVars,
                crashed>>

Call ==
    /\ calls < MaxCalls
    /\ calls' = calls + 1

HookPush(state) ==
    /\ Call
    /\ rIndex + 2 <= MaxHookLen
    /\ history' = PushHistory(rHistory, rIndex, state)
    /\ currentIndex' = PushIndex(rHistory, rIndex, state)
    /\ last' = Did("push", state, {})
    /\ UNCHANGED <<rHistory, rIndex, editorVars>>

HookUndo ==
    /\ Call
    /\ currentIndex' = UndoIndex(canUndo, currentIndex)
    /\ last' = Did("undo", NoImage, {})
    /\ UNCHANGED <<history, rHistory, rIndex, editorVars>>

HookRedo ==
    /\ Call
    /\ currentIndex' = RedoIndex(canRedo, currentIndex)
    /\ last' = Did("redo", NoImage, {})
    /\ UNCHANGED <<history, rHistory, rIndex, editorVars>>

HookReset(state) ==
    /\ Call
    /\ history' = ResetHistory(state)
    /\ currentIndex' = ResetIndex
    /\ last' = Did("reset", state, {})
    /\ UNCHANGED <<rHistory, rIndex, editorVars>>

\* React commits the pending updates: the next calls see them.
HookRender ==
    /\ calls > 0
    /\ rHistory' = history
    /\ rIndex' = currentIndex
    /\ calls' = 0
    /\ last' = Did("render", NoImage, {})
    /\ UNCHANGED <<history, currentIndex, editorVars>>

HookNext ==
    \/ \E state \in HookImages : HookPush(state)
    \/ HookUndo
    \/ HookRedo
    \/ \E state \in HookImages : HookReset(state)
    \/ HookRender

HookSpec == HookInit /\ [][HookNext]_vars

\* ------------------------------------------------------------ the session store
\* The Editor over page reloads, with every kind of stored image an earlier
\* session (or anything else writing to localStorage) may have left, and with
\* a localStorage whose setItem may throw (quota exceeded, storage disabled).
WellFormedImage == ImageState(DataUrl(PNG, "u1"), PNG)
StoredImages == {NoItem,
                 Stringify(WellFormedImage),
                 Json(<< <<"dataUrl", DataUrl(PNG, "u1")>> >>),       \* no mimeType
                 Json(<< <<"dataUrl", NullUrl>>, <<"mimeType", <<PNG>> >> >>),   \* dataUrl: null
                 Text("{not json")}

StoreInit ==
    /\ history = <<>>
    /\ currentIndex = -1
    /\ rHistory = <<>>
    /\ rIndex = -1
    /\ calls = 0
    /\ prompt = ""
    /\ isLoading = FALSE
    /\ loadingMessage = ""
    /\ error = Null
    /\ suggestions = <<>>
    /\ isGeneratingSuggestions = FALSE
    /\ suggestionError = Null
    /\ speechRecognitionError = Null
    /\ transform = NeutralTransform
    /\ adjustments = NeutralAdjustments
    /\ sliderPosition = NeutralSlider
    /\ isPanning = FALSE
    /\ zoomSteps = 0
    /\ savedImage \in StoredImages
    /\ savedPrompt \in InitialPrompts
    /\ edits = EmptyBag
    /\ uploads = EmptyBag
    /\ fetches = EmptyBag
    /\ mounted = FALSE
    /\ quota \in BOOLEAN
    /\ crashed = FALSE
    /\ StudioInit
    /\ last = Did("init", NoImage, {})

\* The page is reloaded: the component and its suspended calls are gone, the
\* state is constructed anew, localStorage is what it was.
Reload ==
    /\ mounted
    /\ history' = <<>>
    /\ currentIndex' = -1
    /\ rHistory' = <<>>
    /\ rIndex' = -1
    /\ calls' = 0
    /\ prompt' = ""
    /\ isLoading' = FALSE
    /\ loadingMessage' = ""
    /\ error' = Null
    /\ suggestions' = <<>>
    /\ isGeneratingSuggestions' = FALSE
    /\ suggestionError' = Null
    /\ speechRecognitionError' = Null
    /\ transform' = NeutralTransform
    /\ adjustments' = NeutralAdjustments
    /\ sliderPosition' = NeutralSlider
    /\ isPanning' = FALSE
    /\ zoomSteps' = 0
    /\ edits' = EmptyBag
    /\ uploads' = EmptyBag
    /\ fetches' = EmptyBag
    /\ mounted' = FALSE
    /\ crashed' = FALSE
    /\ isRecording' = FALSE
    /\ recognition' = NoRecognition
    /\ downloads' = EmptyBag
    /\ shares' = EmptyBag
    /\ shareStatus' = "idle"
    /\ last' = [Did("reload", current, {}) EXCEPT !.message = prompt]
    /\ UNCHANGED <<storeVars, quota, applied>>

\* The user of this session starts an upload or an edit only when none is
\* in flight.
StoreNext ==
    \/ Mount
    \/ Pending = 0 /\ \E file \in Files : HandleDrop(file)
    \/ \E file \in BagToSet(uploads), read \in BOOLEAN : UploadLoaded(file, read)
    \/ Pending = 0 /\ HandleSubmit
    \/ \E call \in BagToSet(edits), url \in AIResults : EditSucceeds(call, url)
    \/ \E call \in BagToSet(edits), message \in AIErrors : EditFails(call, message)
    \/ Undo
    \/ Redo
    \/ HandleReset
    \/ HandleClearSession
    \/ \E newPrompt \in PromptTexts : HandlePromptChange(newPrompt)
    \/ Reload

StoreSpec == StoreInit /\ [][StoreNext]_vars

\* ------------------------------------------------------------ the assistant
\* The Editor with its suggestion panel; uploads and edits are started one at
\* a time, suggestion fetches run beside them.
AssistNext ==
    \/ Mount
    \/ Pending = 0 /\ \E file \in Files : HandleDrop(file)
    \/ \E file \in BagToSet(uploads), read \in BOOLEAN : UploadLoaded(file, read)
    \/ Pending = 0 /\ HandleSubmit
    \/ \E call \in BagToSet(edits), url \in AIResults : EditSucceeds(call, url)
    \/ \E call \in BagToSet(edits), message \in AIErrors : EditFails(call, message)
    \/ Undo
    \/ Redo
    \/ HandleReset
    \/ \E newPrompt \in PromptTexts : HandlePromptChange(newPrompt)
    \/ HandleGetSuggestions
    \/ \E call \in BagToSet(fetches), response \in Responses : SuggestionsSettle(call, response)
    \/ \E i \in 1..Len(suggestions) : ChooseSuggestion(i)

AssistSpec == Init /\ [][AssistNext]_vars

\* ------------------------------------------------------------ the panel
\* The Editor with its suggestion panel and its "Clear Session" button;
\* uploads and edits are started one at a time, suggestion fetches run
\* beside them.
PanelNext ==
    \/ Mount
    \/ Pending = 0 /\ \E file \in Files : HandleDrop(file)
    \/ \E file \in BagToSet(uploads), read \in BOOLEAN : UploadLoaded(file, read)
    \/ Pending = 0 /\ HandleSubmit
    \/ \E call \in BagToSet(edits), url \in AIResults : EditSucceeds(call, url)
    \/ \E call \in BagToSet(edits), message \in AIErrors : EditFails(call, message)
    \/ Undo
    \/ Redo
    \/ HandleReset
    \/ HandleClearSession
    \/ \E newPrompt \in PromptTexts : HandlePromptChange(newPrompt)
    \/ HandleGetSuggestions
    \/ \E call \in BagToSet(fetches), response \in Responses : SuggestionsSettle(call, response)
    \/ \E i \in 1..Len(suggestions) : ChooseSuggestion(i)

PanelSpec == Init /\ [][PanelNext]_vars

\* ------------------------------------------------------------ the studio
\* The Editor with everything that can fail: upload, AI edit, suggestion
\* fetch, download, share and voice capture.  The user starts one of these
\* when none is under way, and every file that is an image can be read.
Quiet ==
    /\ Pending = 0
    /\ fetches = EmptyBag
    /\ downloads = EmptyBag
    /\ shares = EmptyBag
    /\ recognition = NoRecognition

\* One image file and one file that is not an image; suggestions that arrive
\* and a fetch that is rejected.
StudioFiles == {File1, TextFile}
StudioResponses == {GoodPayload, Rejection}

StudioNext ==
    \/ Mount
    \/ Quiet /\ \E file \in StudioFiles : HandleDrop(file)
    \/ \E file \in BagToSet(uploads) : UploadLoaded(file, TRUE)
    \/ Quiet /\ HandleSubmit
    \/ \E call \in BagToSet(edits), url \in AIResults : EditSucceeds(call, url)
    \/ \E call \in BagToSet(edits), message \in AIErrors : EditFails(call, message)
    \/ \E newPrompt \in PromptTexts : HandlePromptChange(newPrompt)
    \/ Quiet /\ HandleGetSuggestions
    \/ \E call \in BagToSet(fetches), response \in StudioResponses :
          SuggestionsSettle(call, response)
    \/ \E value \in Levels : SetBrightness(value)
    \/ Quiet /\ \E quality \in OutputQualities : HandleDownload(quality)
    \/ \E call \in BagToSet(downloads), loads \in BOOLEAN, context \in BOOLEAN :
          DownloadAdjusted(call, loads, context)
    \/ \E call \in BagToSet(downloads), fetched \in BOOLEAN, compresses \in BOOLEAN,
          converts \in BOOLEAN : DownloadCompressed(call, fetched, compresses, converts)
    \/ Quiet /\ HandleShare
    \/ \E call \in BagToSet(shares), loads \in BOOLEAN, context \in BOOLEAN,
          outcome \in ShareOutcomes : ShareSettles(call, loads, context, outcome)
    \/ CopiedExpires
    \/ (Quiet \/ isRecording) /\ \E supported \in BOOLEAN : HandleToggleRecording(supported)
    \/ VoiceStart
    \/ \E transcript \in Transcripts : VoiceResult(transcript)
    \/ \E code \in SpeechErrors : VoiceError(code)
    \/ VoiceEnd

StudioSpec == Init /\ [][StudioNext]_vars

\* ------------------------------------------------------------ the canvas
\* The Editor with its zoom buttons and its comparison slider, and with a
\* form that can be submitted whatever the state of its button; an upload is
\* started when nothing is in flight, and the view is zoomed in by one step
\* at most.
ViewNext ==
    \/ Mount
    \/ Pending = 0 /\ \E file \in Files : HandleDrop(file)
    \/ \E file \in BagToSet(uploads), read \in BOOLEAN : UploadLoaded(file, read)
    \/ HandleSubmit
    \/ HandleSubmitRejected
    \/ \E call \in BagToSet(edits), url \in AIResults : EditSucceeds(call, url)
    \/ \E call \in BagToSet(edits), message \in AIErrors : EditFails(call, message)
    \/ Undo
    \/ Redo
    \/ \E newPrompt \in PromptTexts : HandlePromptChange(newPrompt)
    \/ \E direction \in {"in", "out"} :
          (zoomSteps = 0 \/ direction = "out") /\ ManualZoom(direction)
    \/ ResetView
    \/ \E percentage \in SliderPositions : HandleSlideStart(percentage)

ViewSpec == Init /\ [][ViewNext]_vars

\* ------------------------------------------------------------ the image library
\* The functions of utils/imageOptimizer called on their own, with every
\* outcome of the browser calls they make.
sessionVars == <<hookVars, uiVars, sideVars, viewVars, storeVars, asyncVars, mounted, quota,
                 voiceVars, exportVars, crashed, last>>

\* Arguments of the declared types: data URLs (one of them with no bytes) and
\* MIME types.
LibraryUrls == {DataUrl(PNG, "u1"), DataUrl(JPEG, "y1"), DataUrl(PNG, "")}
LibraryMimeTypes == {PNG, JPEG}

ApplyOptimize(file, compresses) ==
    /\ applied' = [fn |-> "optimizeImage", file |-> file, compresses |-> compresses,
                   result |-> OptimizeImage(file, compresses)]
    /\ UNCHANGED sessionVars

ApplyCompress(dataUrl, mimeType, quality, fetched, compresses, converts) ==
    /\ applied' = CompressCall(dataUrl, mimeType, quality, fetched, compresses, converts)
    /\ UNCHANGED sessionVars

ApplyAdjust(dataUrl, brightness, contrast, loads, context) ==
    /\ applied' = AdjustCall(dataUrl, brightness, contrast, loads, context)
    /\ UNCHANGED sessionVars

ApplyEdit(response) ==
    /\ applied' = EditCall(response)
    /\ UNCHANGED sessionVars

LibraryNext ==
    \/ \E file \in Files, compresses \in BOOLEAN : ApplyOptimize(file, compresses)
    \/ \E dataUrl \in LibraryUrls, mimeType \in LibraryMimeTypes, quality \in OutputQualities,
          fetched \in BOOLEAN, compresses \in BOOLEAN, converts \in BOOLEAN :
          ApplyCompress(dataUrl, mimeType, quality, fetched, compresses, converts)
    \/ \E dataUrl \in LibraryUrls, brightness \in Levels, contrast \in Levels,
          loads \in BOOLEAN, context \in BOOLEAN :
          ApplyAdjust(dataUrl, brightness, contrast, loads, context)
    \/ \E response \in EditResponses : ApplyEdit(response)

LibrarySpec == Init /\ [][LibraryNext]_vars

\* ------------------------------------------------------------ the microphone
\* The Editor with its voice capture, mounted and torn down.  The page is
\* opened again only after the session of the component before it has ended.
\* The browser ends a session that was stopped, or that heard its one result
\* or failed (continuous is false): onend is always delivered.
VoiceNext ==
    \/ recognition = NoRecognition /\ Mount
    \/ \E newPrompt \in PromptTexts : HandlePromptChange(newPrompt)
    \/ \E supported \in BOOLEAN : HandleToggleRecording(supported)
    \/ VoiceStart
    \/ \E transcript \in Transcripts : VoiceResult(transcript)
    \/ \E code \in SpeechErrors : VoiceError(code)
    \/ VoiceEnd
    \/ Unmount

VoiceSpec == Init /\ [][VoiceNext]_vars /\ WF_vars(VoiceEnd)

\* ------------------------------------------------------------ the lens
\* The Editor's zoom and pan: wheel, buttons, pointer and reset-view.
ZoomNext ==
    \/ Mount
    \/ \E deltaY \in WheelDeltas, mouse \in WheelPoints : HandleWheel(deltaY, mouse)
    \/ \E direction \in {"in", "out"} : ManualZoom(direction)
    \/ \E main \in BOOLEAN : HandlePanStart(main)
    \/ \E movement \in Movements : HandlePanMove(movement)
    \/ HandlePanEnd
    \/ ResetView

\* The session of a user who left an image and no prompt.
ZoomInit ==
    /\ Init
    /\ savedImage = Stringify(ImageState(DataUrl(PNG, "u1"), PNG))
    /\ savedPrompt = NoItem

ZoomSpec == ZoomInit /\ [][ZoomNext]_vars

\* ------------------------------------------------------------ the desk
\* Submits, uploads and downloads, with every call they await settling in
\* the end: the AI collaborator answers or fails, the file is read or is
\* not, the canvas and the compression finish or fail.  Downloads are of
\* medium quality, with the adjustments left neutral, and a file is dropped
\* when no upload or edit is in flight (a download may be).
UploadSettles ==
    \E file \in BagToSet(uploads), read \in BOOLEAN : UploadLoaded(file, read)
EditSettles ==
    \E call \in BagToSet(edits) :
        \/ \E url \in AIResults : EditSucceeds(call, url)
        \/ \E message \in AIErrors : EditFails(call, message)
DownloadSettles ==
    \E call \in BagToSet(downloads) :
        \/ \E loads \in BOOLEAN, context \in BOOLEAN : DownloadAdjusted(call, loads, context)
        \/ \E fetched \in BOOLEAN, compresses \in BOOLEAN, converts \in BOOLEAN :
              DownloadCompressed(call, fetched, compresses, converts)

DeskNext ==
    \/ Mount
    \/ Pending = 0 /\ \E file \in StudioFiles : HandleDrop(file)
    \/ HandleSubmit
    \/ \E newPrompt \in PromptTexts : HandlePromptChange(newPrompt)
    \/ \E quality \in {"medium"} : HandleDownload(quality)
    \/ UploadSettles
    \/ EditSettles
    \/ DownloadSettles

DeskSpec ==
    /\ Init /\ [][DeskNext]_vars
    /\ WF_vars(UploadSettles) /\ WF_vars(EditSettles) /\ WF_vars(DownloadSettles)

\* ====================================================================
\* Claims
\* ====================================================================

\* C1 (as claimed): whenever the version list is non-empty the cursor is a
\* valid index, 0 <= cursor < length(versions), and when the list is empty
\* there is no current version -- after any sequence of hook calls, several
\* calls between two renders included.
C1_CursorInRange ==
    /\ history # <<>> => (0 <= currentIndex /\ currentIndex < Len(history))
    /\ history = <<>> => At(history, currentIndex) = NoImage

C3_AppendsAfterCompletionCursor ==
    [][(last'.op = "edit" /\ "moved" \in last'.seen) =>
          /\ history' = Append(SubSeq(history, 1, currentIndex + 1), last'.arg)
          /\ currentIndex' = Len(history') - 1]_vars

\* An AI edit or an upload optimization is in flight.
InFlight == Pending > 0

\* An image whose data was read (an upload whose read failed leaves null).
Readable(state) == state # NoImage /\ state.dataUrl # NullUrl

\* C4 (as claimed): whenever an AI edit or an upload optimization is in
\* flight, the undo, redo, reset-to-original and clear-session triggers (shown
\* with a readable current image) are all disabled.
C4_TriggersDisabledInFlight ==
    (InFlight /\ Shown /\ Readable(current)) =>
        (UndoDisabled /\ RedoDisabled /\ ResetDisabled /\ ClearDisabled)

\* C5 (as claimed): at most one AI edit request is in flight at any time.
C5_OneEditInFlight == BagCardinality(edits) <= 1

\* C6 (as claimed): when clear-session was performed (on a readable image)
\* while an AI edit was in flight, the completion of that edit pushes nothing
\* and the history is empty.
C6_ClearedEditDiscarded ==
    [][(last'.op = "edit" /\ "cleared" \in last'.seen /\ Readable(current)) =>
          (history' = <<>> /\ currentIndex' = -1)]_vars

C8_SuccessfulEditPushes ==
    [][/\ last'.op = "edit" =>
            \E call \in BagToSet(edits) :
               LET X == At(call.history, call.currentIndex)
                   Y == last'.arg
               IN /\ edits' = Remove(edits, call)
                  /\ Len(history') >= 2
                  /\ history'[Len(history')] = Y
                  /\ history'[Len(history') - 1] = X
                  /\ (call.history = <<X>> => history' = <<X, Y>>)
                  /\ currentIndex' = Len(history') - 1
                  /\ current' = Y /\ canUndo' /\ ~canRedo'
                  /\ prompt' = "" /\ ~isLoading' /\ loadingMessage' = ""
       /\ last'.op = "undo" =>
            /\ history' = history
            /\ current' = At(history, currentIndex - 1)
            /\ canRedo'
       /\ last'.op = "redo" =>
            /\ history' = history
            /\ current' = At(history, currentIndex + 1)
            /\ canUndo']_vars

C8_Witness ==
    /\ last.op = "redo"
    /\ Len(history) = 2 /\ currentIndex = 1
    /\ history[1].dataUrl = DataUrl(PNG, "u1")
    /\ current.dataUrl \in AIResults
    /\ prompt = "" /\ ~isLoading

\* C9 (as claimed): versions[0], a readable image installed by the most
\* recent upload or startup load, is left unchanged by undo, redo,
\* reset-to-original, and by the completion of any AI edit, and is never
\* removed while the session is active.
C9_OriginalKept ==
    [][last'.op \in {"edit", "editFailed", "undo", "redo", "reset", "submit", "type"} =>
          (Readable(original) => (history' # <<>> /\ history'[1] = history[1]))]_vars

\* C10: after a successful upload, at the start of a session or replacing an
\* image mid-session, the history is the one-element list [uploaded image]
\* with cursor 0, and canUndo and canRedo are false.
C10_UploadStartsFresh ==
    last.op = "upload" =>
        /\ history = <<last.arg>>
        /\ last.arg.dataUrl \in {DataUrl(f.type, f.data) : f \in Files}
        /\ currentIndex = 0
        /\ current = last.arg
        /\ ~canUndo /\ ~canRedo

\* An upload completes while an edit of the replaced image, whose history
\* had two versions, is still in flight.
C10_Witness ==
    /\ last.op = "upload"
    /\ history = <<last.arg>>
    /\ \E call \in BagToSet(edits) :
          Len(call.history) = 2 /\ call.history[1] # last.arg

\* C11 (as claimed): when an upload fails -- the dropped file is not an image,
\* or the file cannot be read -- an error is recorded in the main error slot,
\* versions and cursor are unchanged, and with nothing else in flight the
\* loading flag is false.
C11_FailedUploadKeepsHistory ==
    [][(last'.op = "uploadUnread" \/ (last'.op = "drop" /\ uploads' = uploads)) =>
          /\ error' # Null
          /\ history' = history /\ currentIndex' = currentIndex
          /\ (Pending' = 0 => ~isLoading')]_vars

\* C12 (as claimed): undo and redo leave the version list as it is; undo
\* takes one from the cursor unless the cursor is at its floor 0, redo adds
\* one unless it is at its ceiling length-1, and at those boundaries (and on
\* the empty history) either call changes nothing.
C12_UndoRedoMoveOnlyCursor ==
    [][/\ last'.op = "undo" =>
            /\ history' = history
            /\ currentIndex' = IF currentIndex <= 0 THEN currentIndex ELSE currentIndex - 1
       /\ last'.op = "redo" =>
            /\ history' = history
            /\ currentIndex' = IF currentIndex >= Len(history) - 1 THEN currentIndex
                                ELSE currentIndex + 1]_vars

C14_ResetToOriginal ==
    [][last'.op = "reset" =>
          /\ history' = <<history[1]>>
          /\ currentIndex' = 0
          /\ last'.arg = history[1] /\ original' = history[1]
          /\ ~canUndo' /\ ~canRedo'
          /\ ResetHistory(At(ResetHistory(original), 0)) = history'
          /\ ResetHistory(original') = history']_vars

C14_Witness ==
    /\ last.op = "reset"
    /\ Readable(last.arg)
    /\ history = <<last.arg>> /\ currentIndex = 0
    /\ prompt = "" /\ savedImage = Stringify(last.arg)

\* C15 (as claimed): clear-session empties the history (no current and no
\* original version), deletes both persisted session keys, and clears prompt,
\* errors and suggestions.
C15_ClearEmptiesSession ==
    [][last'.op = "clear" =>
          /\ history' = <<>> /\ currentIndex' = -1
          /\ At(history', currentIndex') = NoImage /\ At(history', 0) = NoImage
          /\ savedImage' = NoItem /\ savedPrompt' = NoItem
          /\ prompt' = "" /\ error' = Null
          /\ suggestions' = <<>> /\ suggestionError' = Null
          /\ last'.thrown = Null]_vars

\* typeof field === 'string'
StringUrl(url) == url \notin {<<Undefined>>, NullUrl}
StringMime(mime) == mime \notin {Undefined, Null}

\* A stored image entry that is unparseable, or lacks a string dataUrl or a
\* string mimeType.
Corrupted(item) ==
    /\ Truthy(item)
    /\ \/ ~Parses(item)
       \/ ~StringUrl(Parse(item).dataUrl)
       \/ ~StringMime(Parse(item).mimeType)

\* C16 (as claimed): when the stored image entry is corrupted, the load at
\* startup yields no image (the history stays empty), removes both storage
\* keys, and shows no error.
C16_CorruptedSnapshotDiscarded ==
    [][(last'.op = "mount" /\ Corrupted(savedImage) /\ ~quota) =>
          /\ history' = <<>> /\ currentIndex' = -1
          /\ savedImage' = NoItem /\ savedPrompt' = NoItem
          /\ error' = Null /\ ~crashed']_vars

\* An image with both string fields.
WellFormed(state) ==
    state # NoImage /\ StringUrl(state.dataUrl) /\ StringMime(state.mimeType)

\* The snapshot {image, promptText} is what localStorage holds (a cleared
\* prompt is stored as no item).
Holds(storedImage, storedPrompt, image, promptText) ==
    /\ storedImage = Stringify(image)
    /\ storedPrompt = Text(promptText) \/ (promptText = "" /\ storedPrompt = NoItem)

Saved(image, promptText) == Holds(savedImage, savedPrompt, image, promptText)

\* C18: when the session's well-formed image and its prompt text have been
\* saved (by a storage that accepts writes) and the page is reloaded, the load
\* restores a one-element history holding an image equal to the saved one,
\* field by field, and a prompt text equal to the saved one.
C18_SaveLoadRoundTrip ==
    [][(/\ last.op = "reload" /\ last'.op = "mount"
        /\ WellFormed(last.arg) /\ Saved(last.arg, last.message) /\ ~quota) =>
          /\ history' = <<last.arg>> /\ currentIndex' = 0
          /\ current'.dataUrl = last.arg.dataUrl
          /\ current'.mimeType = last.arg.mimeType
          /\ prompt' = last.message
          /\ Holds(savedImage', savedPrompt', current', prompt')]_vars

\* The session reloaded with an AI result as current image and a typed
\* prompt, both restored.
C18_Witness ==
    /\ last.op = "mount" /\ "reloaded" \in last.seen
    /\ ~quota /\ ~crashed
    /\ history = <<ImageState(DataUrl(JPEG, "y1"), JPEG)>> /\ currentIndex = 0
    /\ prompt = "add hat"
    /\ Saved(current, prompt)

\* C19 (as claimed): a storage write that fails during a save is caught:
\* no exception escapes the operation that triggered the save, and the
\* component stays mounted.
C19_FailedWriteIsCaught ==
    last.thrown # QuotaExceededError /\ ~crashed

\* C17 (as claimed): whenever an image is present, after each operation that
\* changes the current image or the prompt text (edit success, undo, redo,
\* reset, upload, typing, choosing a suggestion) the persisted image is the
\* current image and the persisted prompt is the prompt text.
C17_PersistedMatchesSession ==
    [][(/\ last'.op \in {"edit", "undo", "redo", "reset", "upload", "type", "choose"}
        /\ At(history', currentIndex') # NoImage) =>
          Holds(savedImage', savedPrompt', current', prompt')]_vars

\* C20 (as claimed): a suggestion fetch, from its start to its success or
\* failure, leaves versions and cursor as they are; when the collaborator's
\* payload is not an array of strings, the suggestion error slot holds the
\* fixed message for an unexpected response, the suggestion list is empty and
\* the suggestion loading flag is false.
C20_SuggestionFetchOutcome ==
    [][last'.op \in {"suggest", "suggested", "suggestFailed"} =>
          /\ history' = history /\ currentIndex' = currentIndex
          /\ "malformed" \in last'.seen =>
                /\ suggestionError' = UnexpectedResponse
                /\ suggestions' = <<>>
                /\ ~isGeneratingSuggestions']_vars

\* C27 (as claimed): compressImageForDownload never fails to its caller: it
\* resolves whatever happens, and when any of its steps fails (converting
\* the input to a file, compressing, converting back) it resolves to its
\* input unchanged.
C27_CompressNeverFails ==
    applied.fn = "compressImageForDownload" =>
        /\ applied.result.ok
        /\ ~(applied.fetched /\ applied.compresses /\ applied.converts) =>
              applied.result = Returns(applied.dataUrl)

\* C28: optimizeImage never throws to its caller: it resolves to the
\* compressed file (a file other than its input) when the compression
\* succeeds and to the very file it was given when the compression fails.
C28_OptimizeNeverThrows ==
    applied.fn = "optimizeImage" =>
        /\ applied.result.ok
        /\ applied.compresses =>
              /\ applied.result.value = ImageCompression(applied.file)
              /\ applied.result.value # applied.file
        /\ ~applied.compresses => applied.result.value = applied.file

\* C28 witness: the compression of an uploaded image failed and the call
\* resolved to that image.
C28_Witness ==
    /\ applied.fn = "optimizeImage"
    /\ ~applied.compresses
    /\ applied.file = File1
    /\ applied.result = Returns(File1)

\* C29: applyVisualAdjustments resolves to its input, without decoding it,
\* when brightness and contrast are both 100; for any other pair it either
\* resolves to a filtered image (of the input's type, other than the input)
\* or rejects with an Error, and it rejects whenever the source cannot be
\* decoded.
C29_AdjustIdentityOrFiltered ==
    applied.fn = "applyVisualAdjustments" =>
        IF applied.brightness = 100 /\ applied.contrast = 100
        THEN applied.result = Returns(applied.dataUrl) /\ ~applied.decoded
        ELSE /\ applied.decoded
             /\ applied.result.ok =>
                   /\ IsDataUrl(applied.dataUrl)
                   /\ applied.result.value =
                         DataUrl(applied.dataUrl[2], Filtered(applied.dataUrl[4]))
                   /\ applied.result.value # applied.dataUrl
             /\ ~applied.result.ok => applied.result.message \in {FailedToLoad, NoCanvasContext}
             /\ ~applied.loads => applied.result = Throws(FailedToLoad)

\* C29 witness: a source that cannot be decoded comes back unchanged under
\* neutral settings.
C29_Witness ==
    /\ applied.fn = "applyVisualAdjustments"
    /\ applied.brightness = 100 /\ applied.contrast = 100
    /\ ~applied.loads
    /\ applied.result = Returns(applied.dataUrl)

\* C21: at most one suggestion fetch is in flight at any time, and while one
\* is outstanding the "Get suggestions" button is not there to start a
\* second -- whatever uploads, clears, edits, undos and redos happen
\* meanwhile.
C21_OneSuggestionFetch ==
    /\ BagCardinality(fetches) <= 1
    /\ fetches # EmptyBag => (isGeneratingSuggestions /\ ~SuggestShown)

\* C21 witness: a fetch is outstanding and an upload has just replaced the
\* image it was made for; the suggestion list is empty, the session has an
\* image, and still the button is not there.
C21_Witness ==
    /\ BagCardinality(fetches) = 1
    /\ last.op = "upload"
    /\ \E call \in BagToSet(fetches) : call.image # current
    /\ Shown /\ suggestions = <<>>
    /\ ~SuggestShown

\* C22: a submit is accepted only when there is a current image, the prompt
\* is not empty and the loading flag is false; a submit made in any other
\* state is a no-op: no AI request is issued and the history, the cursor,
\* the error, the prompt and the loading state stay as they are.
C22_SubmitGuard ==
    [][/\ last'.op = "submit" => (current # NoImage /\ prompt # "" /\ ~isLoading)
       /\ last'.op = "submitRejected" =>
             /\ current = NoImage \/ prompt = "" \/ isLoading
             /\ edits' = edits
             /\ history' = history /\ currentIndex' = currentIndex
             /\ error' = error /\ prompt' = prompt
             /\ isLoading' = isLoading /\ loadingMessage' = loadingMessage]_vars

\* C22 witness: the form was submitted again while the edit it had started
\* was in flight, and nothing came of it.
C22_Witness ==
    /\ last.op = "submitRejected"
    /\ current # NoImage /\ prompt # "" /\ isLoading
    /\ BagCardinality(edits) = 1

\* C23 (as claimed): when a submit is accepted and its AI request goes out,
\* then on entry to Editing, before the result arrives, the loading flag is
\* set with the label 'Applying AI edit...', the main error is cleared, and
\* the pan/zoom transform and the comparison slider are back at neutral.
C23_SubmitEntersEditing ==
    [][(last'.op = "submit" /\ edits' # edits) =>
          /\ isLoading' /\ loadingMessage' = ApplyingEdit
          /\ error' = Null
          /\ transform' = NeutralTransform
          /\ sliderPosition' = NeutralSlider]_vars

\* C24: the main error, the suggestion error and the voice error are three
\* slots of their own: a failed AI edit, upload, download or share sets the
\* main error and leaves the other two as they are; a failed suggestion
\* fetch sets the suggestion error and leaves the other two; a failed voice
\* capture sets the voice error and leaves the other two.
C24_ErrorSlotsIndependent ==
    [][/\ (\/ last'.op \in {"editFailed", "downloadFailed", "shareFailed"}
           \/ last'.op = "drop" /\ uploads' = uploads) =>
             /\ error' # Null
             /\ suggestionError' = suggestionError
             /\ speechRecognitionError' = speechRecognitionError
       /\ last'.op = "suggestFailed" =>
             /\ suggestionError' # Null
             /\ error' = error
             /\ speechRecognitionError' = speechRecognitionError
       /\ last'.op \in {"voiceError", "voiceUnsupported"} =>
             /\ speechRecognitionError' # Null
             /\ error' = error
             /\ suggestionError' = suggestionError]_vars

\* C24 witness: a voice capture failed while the main error and the
\* suggestion error each held the message of an earlier failure, and both
\* are still there beside the voice error.
C24_Witness ==
    /\ last.op = "voiceError"
    /\ speechRecognitionError = SpeechErrorMessage("no-speech")
    /\ error \in AIErrors
    /\ suggestionError = UserFriendlyError(FetchError)

\* C25: every new attempt clears its own error slot before it runs: an
\* accepted submit whose request goes out, an upload, a download and a share
\* leave the main error empty when they start, a suggestion fetch leaves the
\* suggestion error empty, and a voice capture that started leaves the
\* voice error empty.
C25_AttemptClearsOwnSlot ==
    [][/\ (\/ last'.op = "submit" /\ edits' # edits
           \/ last'.op = "drop" /\ uploads' # uploads
           \/ last'.op \in {"downloadStart", "shareStart"}) => error' = Null
       /\ (last'.op = "suggest" /\ fetches' # fetches) => suggestionError' = Null
       /\ last'.op = "voiceStart" => speechRecognitionError' = Null]_vars

\* C25 witness: a download was started while the main error held the
\* message of an earlier failure, and the slot is empty while the download
\* is in flight.
C25_Witness ==
    /\ last.op = "downloadStart"
    /\ "error" \in last.seen
    /\ error = Null
    /\ downloads # EmptyBag

\* C26: in a download applyVisualAdjustments is called first and
\* compressImageForDownload second, on what the adjustment resolved to: a
\* call reaches its compression only out of a resolved adjustment, carrying
\* that result, still loading; the image handed to the compression is the
\* one the call carries; and when the adjustment fails the call ends there,
\* never compressing, with the main error set to the failure's message and
\* the loading flag cleared.
C26_AdjustThenCompress ==
    [][/\ last'.op = "downloadAdjusted" =>
             \E call \in BagToSet(downloads), loads \in BOOLEAN, context \in BOOLEAN :
                LET result == ApplyVisualAdjustments(call.image.dataUrl, call.settings[1],
                                                     call.settings[2], loads, context)
                IN /\ call.stage = "adjusting"
                   /\ result.ok
                   /\ downloads' = Add(Remove(downloads, call),
                                       [call EXCEPT !.stage = "compressing",
                                                    !.adjusted = result.value])
                   /\ isLoading' = isLoading /\ error' = error
       /\ (last'.op \in {"download", "downloadFailed"} /\ "compressing" \in last'.seen) =>
             \E call \in BagToSet(downloads) :
                /\ call.stage = "compressing"
                /\ last'.arg.dataUrl = call.adjusted
                /\ downloads' = Remove(downloads, call)
       /\ (last'.op = "downloadFailed" /\ "adjusting" \in last'.seen) =>
             /\ \E call \in BagToSet(downloads) :
                   call.stage = "adjusting" /\ downloads' = Remove(downloads, call)
             /\ error' = last'.message /\ error' # Null
             /\ ~isLoading' /\ loadingMessage' = ""]_vars

\* C26 witness: a download of an image under brightness 150 whose source
\* could not be decoded: the adjustment failed, nothing is in flight, the
\* error is set and the loading flag is cleared.
C26_Witness ==
    /\ last.op = "downloadFailed"
    /\ "adjusting" \in last.seen
    /\ adjustments = <<150, 100>>
    /\ error = FailedToLoad
    /\ ~isLoading
    /\ downloads = EmptyBag

C32_EditReturnsImageOrFails ==
    applied.fn = "editImageWithNanoBanana" =>
        LET response == applied.response
            parts == IF response.kind = "resolved" /\ response.candidate.content
                     THEN response.candidate.parts ELSE <<>>
            images == {i \in 1..Len(parts) : parts[i].inlineData}
        IN IF applied.result.ok
           THEN \E i \in images :
                   /\ \A j \in images : i <= j
                   /\ applied.result.value = DataUrl(parts[i].mimeType, parts[i].data)
           ELSE /\ images = {}
                /\ applied.result.message \in
                       {InvalidConfiguration, PolicyRejection, MalformedResponse,
                        TransportFailure, EditThrown(response).message}

\* C32 witness: the response held two images and the call returned the
\* first of them.
C32_Witness ==
    /\ applied.fn = "editImageWithNanoBanana"
    /\ applied.response = Resolved(Candidate(TRUE, <<ImagePart(JPEG, "y1"), ImagePart(PNG, "u2")>>,
                                             "STOP"))
    /\ applied.result = Returns(DataUrl(JPEG, "y1"))

\* C33 (as claimed): after any sequence of wheel zooms, button zooms, pans
\* and reset-views the zoom scale is within [1, 10]; and a pan gesture starts
\* only while the scale is greater than 1.
C33_ZoomWithinRange ==
    /\ [](MIN_ZOOM <= transform.scale /\ transform.scale <= MAX_ZOOM)
    /\ [][(isPanning' /\ ~isPanning) => transform.scale > MIN_ZOOM]_vars

\* C33 witness: during a pan, the wheel was turned to zoom in and the scale
\* was held at 10.
C33_Witness ==
    /\ last.op = "wheel"
    /\ isPanning
    /\ transform.scale = MAX_ZOOM

\* C34 (as claimed): the loading flag is true at every moment at which an AI
\* edit, an upload optimization or a download preparation is in flight: the
\* completion of one of them never clears the flag while another is still
\* outstanding.
C34_LoadingWhileInFlight ==
    (edits # EmptyBag \/ uploads # EmptyBag \/ downloads # EmptyBag) => isLoading

\* C35 (as claimed): every accepted submit, upload or download -- each sets
\* the loading flag -- is followed in the end by Idle, the loading flag false
\* and the loading label empty, whether it succeeds or fails, provided the
\* collaborator call and the file decode settle in the end.
C35_ReturnsToIdle ==
    isLoading ~> (~isLoading /\ loadingMessage = "")

\* C35 witness: an accepted submit has failed and the Editor is idle again.
C35_Witness ==
    /\ last.op = "editFailed"
    /\ ~isLoading
    /\ loadingMessage = ""
    /\ edits = EmptyBag /\ uploads = EmptyBag /\ downloads = EmptyBag

\* Images a session can have stored, each with both of its string fields.
Snapshots ==
    {ImageState(DataUrl(mime, data), mime) : mime \in {PNG, JPEG}, data \in {"u1", "u2", "y1"}}

\* C36 (as claimed): when a well-formed snapshot is stored, the load at
\* startup yields a history of exactly one element, the stored image, with
\* cursor 0 and canUndo and canRedo false, and restores the stored prompt
\* text (no prompt when none is stored); the earlier versions of the session
\* before are not recovered.
C36_StartupRecovery ==
    [][\A image \in Snapshots :
          (last'.op = "mount" /\ savedImage = Stringify(image)) =>
              /\ history' = <<image>> /\ currentIndex' = 0
              /\ ~canUndo' /\ ~canRedo'
              /\ Truthy(savedPrompt) => Text(prompt') = savedPrompt
              /\ ~Truthy(savedPrompt) => prompt' = ""]_vars

\* C36 witness: the session before held an upload and an AI result over it;
\* after the reload the load has restored the result alone, with the prompt,
\* and neither undo nor redo is offered.
C36_Witness ==
    /\ last.op = "mount" /\ "reloaded" \in last.seen
    /\ history = <<ImageState(DataUrl(JPEG, "y1"), JPEG)>>
    /\ currentIndex = 0 /\ ~canUndo /\ ~canRedo
    /\ savedPrompt = Text("add hat") /\ prompt = "add hat"

\* C37 (as claimed): after an upload of a new image or a clear-session the
\* suggestion list is empty, and stays so until a suggestion fetch started
\* after that point completes: the result of a fetch issued against an
\* earlier image is never shown for the new session.  Stated for the step
\* that ends the upload or the clear-session: no fetch started after it can
\* have completed yet, so the list is empty then.
C37_NoStaleSuggestions ==
    [][last'.op \in {"upload", "uploadUnread", "clear"} => suggestions' = <<>>]_vars

\* The steps of handleDownload and of handleShare: the call up to its first
\* await, and each settling of an await after it.
DownloadSteps == {"downloadStart", "downloadAdjusted", "download", "downloadFailed"}
ShareSteps == {"shareStart", "share", "shareFailed"}

\* C38 (as claimed): download and share leave the history (versions and
\* cursor), the prompt text and the persisted session snapshot unchanged,
\* whether they succeed or fail; of the component's state only the main error
\* slot, the loading flag and label (download) and the share status (share)
\* may change.
C38_ExportFrame ==
    [][/\ last'.op \in DownloadSteps \cup ShareSteps =>
              /\ UNCHANGED <<history, currentIndex, prompt, savedImage, savedPrompt>>
              /\ UNCHANGED <<sideVars, transform, adjustments, sliderPosition, isPanning,
                             isRecording>>
       /\ last'.op \in DownloadSteps => UNCHANGED shareStatus
       /\ last'.op \in ShareSteps => UNCHANGED <<isLoading, loadingMessage>>]_vars

\* C38 witness: a share of the second version of a session with a prompt has
\* failed; the two versions, the cursor, the prompt and the stored snapshot
\* are as they were, and the failure is in the main error slot.
C38_Witness ==
    /\ last.op = "shareFailed"
    /\ Len(history) = 2 /\ currentIndex = 1
    /\ prompt # ""
    /\ savedImage = Stringify(current) /\ savedPrompt = Text(prompt)
    /\ error = last.message
    /\ ~isLoading

====
